---------------------------- MODULE Spec2Model ----------------------------
(***************************************************************************)
(* Model of the OneVice agent orchestration engine: the provider router,   *)
(* the agent configuration resolver, the session manager and the bounded   *)
(* reasoning loop of runQuery.                                             *)
(*                                                                         *)
(* Strings that the code inspects or builds (message texts, model names,   *)
(* tool results) are sequences of tokens, "" being << >>.  An optional     *)
(* value is a sequence of length 0 (undefined) or 1 (defined).             *)
(***************************************************************************)
EXTENDS Integers, Sequences, FiniteSets, TLC

VARIABLES
    env,                \* process environment: which provider keys are set
    userAgents,         \* user_agents table: agent id -> row, or no row
    sessions,           \* agent_sessions table: rows in insertion order
    now,                \* wall clock (new Date())
    pc,                 \* control point of runQuery
    request,            \* the QueryRequest being served
    config,             \* resolved AgentConfig
    agentType,
    routingStrategy,
    primaryAgent,
    sessionId,          \* optional session id
    historyMessages,    \* history loaded from the session
    messages,           \* the request's message list
    newMessagesStartIndex,
    toolsUsed,
    i,                  \* loop counter of the ReAct loop
    batch,              \* response.toolCalls of the current iteration
    k,                  \* position of the next tool call in batch
    response,           \* the response that ended the loop, if any
    result,             \* what runQuery returned or threw
    callLog,            \* chatCompletion invocations
    fetchLog,           \* HTTP requests sent to a backend
    execLog,            \* tool.execute invocations
    saveLog,            \* saveSessionMessages invocations
    toolRegistry,       \* factory.ts: the module-level tool registry, or null
    resolveLog,         \* agent lookups, builds, session loads, agent edits
    httpLog,            \* requests the routes of the service have handled
    cache,              \* the key-value cache: the entries it holds
    tasks               \* concurrent runQuery invocations: position and locals

vars == << env, userAgents, sessions, now, pc, request, config, agentType,
           routingStrategy, primaryAgent, sessionId, historyMessages,
           messages, newMessagesStartIndex, toolsUsed, i, batch, k,
           response, result, callLog, fetchLog, execLog, saveLog,
           toolRegistry, resolveLog, httpLog, cache, tasks >>

-----------------------------------------------------------------------------
(* Optional values and small sequence helpers *)

None == << >>

Some(x) == << x >>

IsSome(o) == Len(o) > 0

Get(o) == o[1]

SliceAfterMutant(s, from) == SubSeq(s, from + 2, Len(s))

\* Array.prototype.slice(from) with a 0-based start index
SliceFrom(s, from) == SubSeq(s, from + 1, Len(s))

\* Array.prototype.slice(-n): the last n entries
SliceLast(s, n) == SubSeq(s, Len(s) - n + 1, Len(s))

\* Array.prototype.join(sep) on a sequence of token strings
RECURSIVE Join(_, _)
Join(parts, sep) ==
    IF parts = << >> THEN << >>
    ELSE IF Len(parts) = 1 THEN Head(parts)
    ELSE Head(parts) \o << sep >> \o Join(Tail(parts), sep)

Range(s) == { s[j] : j \in 1..Len(s) }

-----------------------------------------------------------------------------
(* types/index.ts *)

AgentTypes == { "sales", "talent", "bidding", "custom" }

DataSensitivityLevels == 1..6

\* ChatMessage (llm/router.ts), with the timestamp the session manager adds
Msg(role, content, tool_calls, tool_call_id, timestamp) ==
    [ role |-> role, content |-> content, tool_calls |-> tool_calls,
      tool_call_id |-> tool_call_id, timestamp |-> timestamp ]

UserMsg(text) == Msg("user", text, None, None, None)

AssistantMsg(text) == Msg("assistant", text, None, None, None)

-----------------------------------------------------------------------------
(* llm/router.ts *)

ThresholdAnthropicMutant(sensitivity) ==
    IF sensitivity > 5 THEN "anthropic" ELSE "together"

getProvider(sensitivity) ==
    IF sensitivity >= 5 THEN "anthropic" ELSE "together"

DEFAULT_TOGETHER_MODEL == << "meta-llama", "/", "Llama-3.3-70B-Instruct-Turbo" >>

DEFAULT_ANTHROPIC_MODEL == << "claude-sonnet-4-6" >>

\* opts.model ?? DEFAULT_x_MODEL in callTogether / callAnthropic
BackendModel(provider, opts) ==
    IF IsSome(opts.model) THEN Get(opts.model)
    ELSE IF provider = "anthropic" THEN DEFAULT_ANTHROPIC_MODEL
    ELSE DEFAULT_TOGETHER_MODEL

\* A provider chosen from the model name instead of the sensitivity level
ProviderByModelMutant(opts) ==
    IF IsSome(opts.model) /\ Len(Get(opts.model)) > 0
       /\ Get(opts.model)[1] \in { "anthropic", "claude-sonnet-4-6" }
    THEN "anthropic"
    ELSE IF IsSome(opts.model) /\ Len(Get(opts.model)) > 0
            /\ Get(opts.model)[1] \in { "together", "meta-llama" }
    THEN "together"
    ELSE getProvider(IF IsSome(opts.dataSensitivity)
                     THEN Get(opts.dataSensitivity) ELSE 1)

\* chatCompletion: the backend function the call is dispatched to
chatCompletionProvider(opts) ==
    getProvider(IF IsSome(opts.dataSensitivity)
                THEN Get(opts.dataSensitivity) ELSE 1)

\* process.env.TOGETHER_API_KEY / ANTHROPIC_API_KEY
ApiKeyConfigured(e, provider) ==
    IF provider = "anthropic" THEN e.ANTHROPIC_API_KEY ELSE e.TOGETHER_API_KEY

\* The stop reasons callTogether and callAnthropic can return
StopReasons == { "stop", "tool_calls", "unknown" }

ChatResponse(text, stopReason, toolCalls) ==
    [ text |-> text, stopReason |-> stopReason, toolCalls |-> toolCalls ]

ToolCall(id, name) == [ id |-> id, name |-> name, arguments |-> "{}" ]

\* JSON.stringify of a value, as the text that encodes it
JSONstringify(v) == << "json", v >>

\* JSON.parse of such a text
JSONparse(text) == text[2]

\* callTogether, line 115: finish_reason to stopReason
TogetherStopReason(finish_reason) ==
    IF finish_reason = "tool_calls" THEN "tool_calls"
    ELSE IF finish_reason = "stop" THEN "stop"
    ELSE "unknown"

\* callTogether, lines 106-119: choices[0] to the canonical response
TogetherResponse(choice) ==
    LET calls == IF IsSome(choice.message.tool_calls)
                 THEN Get(choice.message.tool_calls) ELSE << >>
    IN  ChatResponse(
            IF IsSome(choice.message.content)
            THEN Get(choice.message.content) ELSE << >>,
            TogetherStopReason(choice.finish_reason),
            [ j \in 1..Len(calls) |->
                [ id |-> calls[j].id, name |-> calls[j].function.name,
                  arguments |-> JSONparse(calls[j].function.arguments) ] ])

\* callAnthropic, line 219: stop_reason to stopReason
AnthropicStopReason(stop_reason) ==
    IF stop_reason = "tool_use" THEN "tool_calls"
    ELSE IF stop_reason = "end_turn" THEN "stop"
    ELSE "unknown"

IsTextBlock(block) == block.type = "text"

IsToolUseBlock(block) == block.type = "tool_use"

\* text += block.text ?? "" over the text blocks
RECURSIVE ConcatText(_)
ConcatText(blocks) ==
    IF blocks = << >> THEN << >>
    ELSE (IF IsSome(Head(blocks).text) THEN Get(Head(blocks).text) ELSE << >>)
         \o ConcatText(Tail(blocks))

\* callAnthropic, lines 202-223: the content blocks to the canonical response
AnthropicResponse(data) ==
    LET uses == SelectSeq(data.content, IsToolUseBlock)
    IN  ChatResponse(
            ConcatText(SelectSeq(data.content, IsTextBlock)),
            AnthropicStopReason(data.stop_reason),
            [ j \in 1..Len(uses) |->
                [ id |-> uses[j].id, name |-> uses[j].name,
                  arguments |-> IF IsSome(uses[j].input)
                                THEN Get(uses[j].input) ELSE "{}" ] ])


-----------------------------------------------------------------------------
(* tools: the process-wide inventory (getAllGraphTools, getAllBidTools,    *)
(* getAllFolkTools) and the built-in agent configurations                  *)

getAllGraphTools ==
    << "get_person_details", "get_organization_profile", "find_collaborators",
       "get_project_details", "find_similar_projects", "broad_vector_search" >>

getAllBidTools ==
    << "validate_line_producer_rate", "get_dp_financial_breakdown",
       "get_director_brand_fit", "find_dp_by_aesthetic",
       "check_crew_collaboration", "get_executive_producer_for_project",
       "analyze_hub_node_status" >>

getAllFolkTools ==
    << "search_folk_contacts", "get_folk_contact_details", "list_folk_groups" >>

AgentConfig(type, systemPrompt, tools, defaultModel) ==
    [ type |-> type, systemPrompt |-> systemPrompt, tools |-> tools,
      defaultModel |-> defaultModel ]

SALES_CONFIG ==
    AgentConfig("sales", "SALES_PROMPT",
        << "get_person_details", "get_organization_profile",
           "find_collaborators", "broad_vector_search", "search_folk_contacts",
           "get_folk_contact_details", "list_folk_groups" >>, None)

TALENT_CONFIG ==
    AgentConfig("talent", "TALENT_PROMPT",
        << "get_person_details", "find_collaborators", "get_project_details",
           "find_similar_projects", "broad_vector_search",
           "check_crew_collaboration", "find_dp_by_aesthetic",
           "get_director_brand_fit" >>, None)

BIDDING_CONFIG ==
    AgentConfig("bidding", "BIDDING_PROMPT",
        << "validate_line_producer_rate", "get_dp_financial_breakdown",
           "get_director_brand_fit", "find_dp_by_aesthetic",
           "check_crew_collaboration", "get_executive_producer_for_project",
           "analyze_hub_node_status", "get_project_details",
           "get_person_details", "broad_vector_search" >>, None)

\* CONFIGS[type] ?? SALES_CONFIG
getAgentConfig(type) ==
    CASE type = "sales" -> SALES_CONFIG
      [] type = "talent" -> TALENT_CONFIG
      [] type = "bidding" -> BIDDING_CONFIG
      [] OTHER -> SALES_CONFIG

-----------------------------------------------------------------------------
(* agents/configs.ts: classifyQuery.  A message is a sequence of words;    *)
(* KeywordsIn(w) is the set of keywords that occur as substrings of the    *)
(* lower-cased word w.                                                     *)

SALES_KEYWORDS ==
    { "lead", "client", "company", "organization", "deal", "pipeline",
      "contact", "revenue", "prospect", "sales", "crm", "folk" }

TALENT_KEYWORDS ==
    { "crew", "talent", "director", "producer", "dp", "casting", "hire",
      "skill", "cinematographer", "editor", "writer" }

BIDDING_KEYWORDS ==
    { "bid", "cost", "rate", "budget", "estimate", "vendor", "financial",
      "breakdown", "price", "fee", "invoice", "line item" }

AllKeywords == SALES_KEYWORDS \cup TALENT_KEYWORDS \cup BIDDING_KEYWORDS

\* String.prototype.toLowerCase on the words of the vocabulary
toLowerCase(w) ==
    CASE w = "Budget" -> "budget"
      [] w = "Rate" -> "rate"
      [] w = "Crew" -> "crew"
      [] w = "Ann" -> "ann"
      [] w = "Bob" -> "bob"
      [] OTHER -> w

\* String.prototype.includes: the keywords inside a lower-cased word
KeywordsIn(w) ==
    CASE w = "leader" -> { "lead" }
      [] w = "directors" -> { "director" }
      [] w = "bidding" -> { "bid" }
      [] w = "corporate" -> { "rate" }
      [] w \in AllKeywords -> { w }
      [] OTHER -> { }

\* lower.includes(kw): the keyword occurs inside a word of the message, or,
\* for the one keyword with a blank in it, in two words that follow each other
Includes(message, kw) ==
    \/ \E j \in 1..Len(message) : kw \in KeywordsIn(toLowerCase(message[j]))
    \/ /\ kw = "line item"
       /\ \E j \in 1..(Len(message) - 1) :
             /\ toLowerCase(message[j]) = "line"
             /\ toLowerCase(message[j + 1]) = "item"

\* The loops of lines 164-172: one point per keyword that occurs
Score(message, keywords) ==
    Cardinality({ kw \in keywords : Includes(message, kw) })

BiddingWinsTiesMutant(message) ==
    LET salesScore == Score(message, SALES_KEYWORDS)
        talentScore == Score(message, TALENT_KEYWORDS)
        biddingScore == Score(message, BIDDING_KEYWORDS)
    IN  IF biddingScore >= salesScore /\ biddingScore >= talentScore
        THEN "bidding"
        ELSE IF talentScore > salesScore THEN "talent"
        ELSE "sales"

classifyQuery(message) ==
    LET salesScore == Score(message, SALES_KEYWORDS)
        talentScore == Score(message, TALENT_KEYWORDS)
        biddingScore == Score(message, BIDDING_KEYWORDS)
    IN  IF biddingScore > salesScore /\ biddingScore > talentScore THEN "bidding"
        ELSE IF talentScore > salesScore THEN "talent"
        ELSE IF salesScore > 0 THEN "sales"
        ELSE "sales"

-----------------------------------------------------------------------------
(* agents/factory.ts *)

\* The Map getToolRegistry builds on its first call: its keys in insertion
\* order (no two tools of the inventory share a name)
NewToolRegistry == getAllGraphTools \o getAllBidTools \o getAllFolkTools

\* getToolRegistry: the cached Map when there is one, a new one otherwise
getToolRegistry(registry) ==
    IF IsSome(registry) THEN Get(registry) ELSE NewToolRegistry

\* [...getToolRegistry().keys()]
getValidToolNames(registry) == getToolRegistry(registry)

ResolveInRegistryOrderMutant(registry, toolNames) ==
    LET Wanted(name) == name \in Range(toolNames)
    IN  SelectSeq(getToolRegistry(registry), Wanted)

\* registry.get(name) for each name, in the order of the names
resolveTools(registry, toolNames) ==
    LET InRegistry(name) == name \in Range(getToolRegistry(registry))
    IN  SelectSeq(toolNames, InRegistry)

RegistryDrainedMutant(registry, toolNames) ==
    LET Kept(name) == name \notin Range(toolNames)
    IN  Some(SelectSeq(getToolRegistry(registry), Kept))

\* The module-level toolRegistry after a call of resolveTools: the Map that
\* getToolRegistry returned, with the entries it had
RegistryAfterResolve(registry, toolNames) == Some(getToolRegistry(registry))

\* modelPref.replace(/^(together|anthropic)\//, "") || undefined
stripModelPrefix(modelPref) ==
    LET stripped ==
            IF Len(modelPref) >= 2 /\ modelPref[1] \in { "together", "anthropic" }
               /\ modelPref[2] = "/"
            THEN SubSeq(modelPref, 3, Len(modelPref))
            ELSE modelPref
    IN  IF stripped = << >> THEN None ELSE Some(stripped)

\* userConfig.system_prompt || fallback
PromptOr(system_prompt, fallback) ==
    IF IsSome(system_prompt) /\ Get(system_prompt) # "" THEN Get(system_prompt)
    ELSE fallback

\* userConfig.tools_enabled.length on a row whose tools_enabled is null
BuildThrows(userConfig) == ~ IsSome(userConfig.tools_enabled)

\* The names handed to resolveTools: the enabled tools, or for a custom agent
\* without any the whole inventory; a standard agent without any resolves
\* nothing and keeps the built-in list
NamesToResolve(registry, userConfig) ==
    IF Len(Get(userConfig.tools_enabled)) > 0
    THEN Some(Get(userConfig.tools_enabled))
    ELSE IF userConfig.agent_type = "custom"
         THEN Some(getValidToolNames(registry))
         ELSE None

NoDefaultToolsMutant(registry, userConfig) ==
    AgentConfig(userConfig.agent_type,
        PromptOr(userConfig.system_prompt,
                 IF userConfig.agent_type = "custom" THEN "DEFAULT_CUSTOM_PROMPT"
                 ELSE getAgentConfig(userConfig.agent_type).systemPrompt),
        resolveTools(registry, Get(userConfig.tools_enabled)),
        stripModelPrefix(userConfig.model_preference))

buildAgentConfigFromUser(registry, userConfig) ==
    IF userConfig.agent_type = "custom"
    THEN AgentConfig("custom",
             PromptOr(userConfig.system_prompt, "DEFAULT_CUSTOM_PROMPT"),
             IF Len(Get(userConfig.tools_enabled)) > 0
             THEN resolveTools(registry, Get(userConfig.tools_enabled))
             ELSE resolveTools(registry, getValidToolNames(registry)),
             stripModelPrefix(userConfig.model_preference))
    ELSE LET baseConfig == getAgentConfig(userConfig.agent_type)
         IN  AgentConfig(userConfig.agent_type,
                 PromptOr(userConfig.system_prompt, baseConfig.systemPrompt),
                 IF Len(Get(userConfig.tools_enabled)) > 0
                 THEN resolveTools(registry, Get(userConfig.tools_enabled))
                 ELSE baseConfig.tools,
                 stripModelPrefix(userConfig.model_preference))

\* The module-level toolRegistry after buildAgentConfigFromUser returned
RegistryAfterBuild(registry, userConfig) ==
    IF IsSome(NamesToResolve(registry, userConfig))
    THEN RegistryAfterResolve(registry, Get(NamesToResolve(registry, userConfig)))
    ELSE registry

-----------------------------------------------------------------------------
(* db/supabase.ts: the agent_sessions and user_agents tables *)

SessionRow(id, userId, agentId, conversationId, state, lastActive) ==
    [ id |-> id, user_id |-> userId, agent_id |-> agentId,
      conversation_id |-> conversationId, state |-> state,
      last_active |-> lastActive ]

\* select("*").eq(user_id).eq(agent_id).eq(conversation_id)
MatchingSessions(tbl, userId, agentId, conversationId) ==
    { j \in 1..Len(tbl) : /\ tbl[j].user_id = userId
                          /\ tbl[j].agent_id = agentId
                          /\ tbl[j].conversation_id = conversationId }

\* .single(): a row only when exactly one row matches
SingleSession(tbl, userId, agentId, conversationId) ==
    LET found == MatchingSessions(tbl, userId, agentId, conversationId)
    IN  IF Cardinality(found) = 1 THEN Some(CHOOSE j \in found : TRUE) ELSE None

AlwaysCreateMutant(tbl, userId, agentId, conversationId, t) ==
    Append(tbl, SessionRow(Len(tbl) + 1, userId, agentId, conversationId,
                           None, t))

\* getOrCreateSession: the table after the call
getOrCreateSessionTable(tbl, userId, agentId, conversationId, t) ==
    LET existing == SingleSession(tbl, userId, agentId, conversationId)
    IN  IF IsSome(existing)
        THEN [ tbl EXCEPT ![Get(existing)].last_active = t ]
        ELSE Append(tbl, SessionRow(Len(tbl) + 1, userId, agentId,
                                    conversationId, None, t))

\* getOrCreateSession: the row it returns
getOrCreateSessionRow(tbl, userId, agentId, conversationId, t) ==
    LET existing == SingleSession(tbl, userId, agentId, conversationId)
    IN  IF IsSome(existing) THEN tbl[Get(existing)]
        ELSE SessionRow(Len(tbl) + 1, userId, agentId, conversationId, None, t)

UpdateEveryRowMutant(tbl, id, state, t) ==
    [ j \in 1..Len(tbl) |->
        [ tbl[j] EXCEPT !.state = state, !.last_active = t ] ]

\* updateSessionState: update({state, last_active}).eq("id", sessionId)
updateSessionState(tbl, id, state, t) ==
    [ j \in 1..Len(tbl) |->
        IF tbl[j].id = id
        THEN [ tbl[j] EXCEPT !.state = state, !.last_active = t ]
        ELSE tbl[j] ]

StoreKeyOnlyMutant(e) == e.SUPABASE_KEY

\* getSupabaseClient: SUPABASE_URL and a key (service role ?? anon) are set;
\* without them every store operation throws before it sends anything
StoreConfigured(e) == e.SUPABASE_URL /\ e.SUPABASE_KEY

CachedAgentMutant(tbl, agentId) ==
    LET seen == { j \in 1..Len(resolveLog) :
                    /\ resolveLog[j].op = "getUserAgent"
                    /\ IsSome(resolveLog[j].definition)
                    /\ Get(resolveLog[j].definition).id = agentId }
    IN  IF seen # { }
        THEN resolveLog[CHOOSE j \in seen : \A n \in seen : j <= n].definition
        ELSE IF agentId \in DOMAIN tbl THEN << tbl[agentId] >> ELSE << >>

\* getUserAgent: the row, or null
getUserAgent(tbl, agentId) ==
    IF agentId \in DOMAIN tbl THEN Some(tbl[agentId]) ELSE None

-----------------------------------------------------------------------------
(* agents/session-manager.ts *)

MAX_HISTORY_MESSAGES == 20

\* loadSessionMessages: Array.isArray(state?.messages) ? state.messages : []
SessionMessagesOf(row) == IF IsSome(row.state) THEN Get(row.state) ELSE << >>

\* msg.timestamp ?? new Date().toISOString()
Stamp(msg, t) ==
    IF IsSome(msg.timestamp) THEN msg ELSE [ msg EXCEPT !.timestamp = Some(t) ]

WindowNoCapMutant(allMessages) == allMessages

\* allMessages.length > MAX ? allMessages.slice(-MAX) : allMessages
Window(allMessages) ==
    IF Len(allMessages) > MAX_HISTORY_MESSAGES
    THEN SliceLast(allMessages, MAX_HISTORY_MESSAGES)
    ELSE allMessages

SaveOldestKeptMutant(existingMessages, newMessages, t) ==
    LET allMessages == existingMessages \o newMessages
        windowed == IF Len(allMessages) > MAX_HISTORY_MESSAGES
                    THEN SubSeq(allMessages, 1, MAX_HISTORY_MESSAGES)
                    ELSE allMessages
    IN  [ j \in 1..Len(windowed) |-> Stamp(windowed[j], t) ]

\* saveSessionMessages: the list handed to updateSessionState
saveSessionMessages(existingMessages, newMessages, t) ==
    LET allMessages == existingMessages \o newMessages
        windowed == Window(allMessages)
    IN  [ j \in 1..Len(windowed) |-> Stamp(windowed[j], t) ]

-----------------------------------------------------------------------------
(* agents/orchestrator.ts: runQuery *)

MaxIterationsPlusOneMutant == 5 + 1

MAX_ITERATIONS == 5

NO_RESPONSE_TEXT == << "[No response generated]" >>

MAX_ITERATIONS_TEXT ==
    << "[Max iterations reached - partial results may be available from tool calls]" >>

\* a || b on strings
OrElse(text, fallback) == IF text = << >> THEN fallback ELSE text

QueryRequest(message, userId, sensitivity, conversationId, agentId, agentTypeOpt) ==
    [ message |-> message,
      user_context |-> [ user_id |-> userId, data_sensitivity |-> sensitivity ],
      conversation_id |-> conversationId,
      agent_id |-> agentId, agent_type |-> agentTypeOpt ]

AgentInfo(type, primary, strategy, used) ==
    [ type |-> type, primary_agent |-> primary, routing_strategy |-> strategy,
      agents_used |-> used ]

Returned(content, info, conversationId) ==
    [ kind |-> "response", content |-> content, agent_info |-> info,
      conversation_id |-> conversationId ]

Thrown(error) ==
    [ kind |-> "thrown", content |-> << error >>,
      agent_info |-> AgentInfo("", << >>, "", None), conversation_id |-> "" ]

\* request.agent_type ?? classifyQuery(request.message)
ClassifiedType(req) ==
    IF IsSome(req.agent_type) THEN Get(req.agent_type)
    ELSE classifyQuery(req.message)

\* The options runQuery hands to chatCompletion on every iteration
CompletionOptions(cfg, msgs, req) ==
    [ systemPrompt |-> cfg.systemPrompt,
      messages |-> msgs,
      tools |-> IF Len(cfg.tools) > 0 THEN Some(cfg.tools) ELSE None,
      dataSensitivity |-> Some(req.user_context.data_sensitivity),
      model |-> cfg.defaultModel ]

\* lines 132-140: the assistant message that carries the tool calls
ToolCallMessage(tc) ==
    [ id |-> tc.id, type |-> "function",
      function |-> [ name |-> tc.name, arguments |-> JSONstringify(tc.arguments) ] ]

AssistantToolMsg(text, toolCalls) ==
    Msg("assistant", OrElse(text, << >>),
        Some([ j \in 1..Len(toolCalls) |-> ToolCallMessage(toolCalls[j]) ]),
        None, None)

\* lines 164-168
ToolMsg(resultText, id) == Msg("tool", resultText, None, Some(id), None)

\* JSON.stringify({ error: text })
ErrorPayload(text) == << "{\"error\":\"" >> \o text \o << "\"}" >>

IsTextSegment(c) == c.type = "text"

\* result.content.filter(text).map(c => c.text).join("\n")
ResultText(content) ==
    LET texts == SelectSeq(content, IsTextSegment)
    IN  Join([ j \in 1..Len(texts) |-> texts[j].text ], "\n")

IsAssistant(m) == m.role = "assistant"

FirstAssistantMutant(msgs) ==
    LET assistants == SelectSeq(msgs, IsAssistant)
    IN  IF assistants = << >> THEN MAX_ITERATIONS_TEXT
        ELSE OrElse(assistants[1].content, MAX_ITERATIONS_TEXT)

\* lines 182-186: lastAssistant?.content || "[Max iterations reached ...]"
ExhaustedContent(msgs) ==
    LET assistants == SelectSeq(msgs, IsAssistant)
    IN  IF assistants = << >> THEN MAX_ITERATIONS_TEXT
        ELSE OrElse(assistants[Len(assistants)].content, MAX_ITERATIONS_TEXT)

\* line 119: response.text || "[No response generated]"
DoneContent(text) == OrElse(text, NO_RESPONSE_TEXT)

\* line 124: toolsUsed.length > 0 ? toolsUsed : undefined
DoneAgentsUsed(used) == IF Len(used) > 0 THEN Some(used) ELSE None

ExhaustedAgentsUsedOmitMutant(used) == IF Len(used) > 0 THEN Some(used) ELSE None

\* line 191: agents_used: toolsUsed
ExhaustedAgentsUsed(used) == Some(used)

DoneOnNoToolRequestMutant(r) ==
    r.stopReason # "tool_calls" \/ Len(r.toolCalls) = 0

\* line 106
IsFinal(r) == r.stopReason = "stop" \/ Len(r.toolCalls) = 0

-----------------------------------------------------------------------------
(* runQuery, step 1-3 (lines 27-93): resolve the configuration, attach the *)
(* session, build the initial message list                                 *)

\* Everything the resolution leaves behind when the loop starts
Begin(req, cfg, type, strategy, primary, sid, history, tbl, t) ==
    /\ request' = req
    /\ config' = cfg
    /\ agentType' = type
    /\ routingStrategy' = strategy
    /\ primaryAgent' = primary
    /\ sessionId' = sid
    /\ historyMessages' = history
    /\ messages' = history \o << UserMsg(req.message) >>
    /\ newMessagesStartIndex' = Len(history)
    /\ toolsUsed' = << >>
    /\ i' = 0
    /\ sessions' = tbl
    /\ now' = t
    /\ pc' = "Loop"
    /\ UNCHANGED << env, tasks, cache,
                    userAgents, batch, k, response, result, callLog,
                    fetchLog, execLog, saveLog >>

\* if (x): a defined, non-empty string
Truthy(o) == IsSome(o) /\ Get(o) # ""

\* One entry of resolveLog
Resolved(op, outcome, definition, cfg) ==
    [ op |-> op, outcome |-> outcome, definition |-> definition, config |-> cfg ]

FallbackWithSessionMutant(req, steps) ==
    LET uid == req.user_context.user_id
        aid == Get(req.agent_id)
        row == getOrCreateSessionRow(sessions, uid, aid,
                                     req.conversation_id, now)
        tbl == getOrCreateSessionTable(sessions, uid, aid,
                                       req.conversation_id, now)
    IN  /\ Begin(req, getAgentConfig(ClassifiedType(req)),
                 ClassifiedType(req), "fallback_classified",
                 << ClassifiedType(req), "_intelligence" >>,
                 Some(row.id), SessionMessagesOf(row), tbl, now + 1)
        /\ resolveLog' = resolveLog \o steps
        /\ UNCHANGED toolRegistry

\* lines 62-65, 69-72: classification after the agent path was left; steps
\* are the lookup and build attempts that came before
Fallback(req, steps) ==
    /\ Begin(req, getAgentConfig(ClassifiedType(req)), ClassifiedType(req),
             "fallback_classified", << ClassifiedType(req), "_intelligence" >>,
             None, << >>, sessions, now)
    /\ resolveLog' = resolveLog \o steps
    /\ UNCHANGED toolRegistry

\* lines 75-80: no agent_id
Classified(req) ==
    /\ Begin(req, getAgentConfig(ClassifiedType(req)), ClassifiedType(req),
             IF Truthy(req.agent_type) THEN "direct" ELSE "auto_classified",
             << ClassifiedType(req), "_intelligence" >>,
             None, << >>, sessions, now)
    /\ UNCHANGED << toolRegistry, resolveLog >>

\* lines 50-56: loadSessionMessages returned the session and its window
SessionAttached(req, userAgent, cfg, steps) ==
    LET uid == req.user_context.user_id
        row == getOrCreateSessionRow(sessions, uid, userAgent.id,
                                     req.conversation_id, now)
        tbl == getOrCreateSessionTable(sessions, uid, userAgent.id,
                                       req.conversation_id, now)
    IN  /\ Begin(req, cfg, userAgent.agent_type, "user_agent",
                 << "user_agent:", userAgent.id >>,
                 Some(row.id), SessionMessagesOf(row), tbl, now + 1)
        /\ resolveLog' = resolveLog \o steps \o
              << Resolved("loadSessionMessages", "ok", None, None) >>

LoadFailureFallsBackMutant(req, userAgent, cfg, steps) ==
    /\ Begin(req, getAgentConfig(ClassifiedType(req)), ClassifiedType(req),
             "fallback_classified", << ClassifiedType(req), "_intelligence" >>,
             None, << >>, sessions, now)
    /\ resolveLog' = resolveLog \o steps \o
          << Resolved("loadSessionMessages", "throw", None, None) >>

\* lines 57-59: loadSessionMessages threw; the catch keeps what lines 43-46
\* assigned and leaves sessionId null and the history empty
SessionLoadFails(req, userAgent, cfg, steps) ==
    /\ Begin(req, cfg, userAgent.agent_type, "user_agent",
             << "user_agent:", userAgent.id >>,
             None, << >>, sessions, now)
    /\ resolveLog' = resolveLog \o steps \o
          << Resolved("loadSessionMessages", "throw", None, None) >>

\* lines 43-59: an active stored agent whose configuration builds; the
\* session load succeeds or throws
UserAgentPath(req, userAgent) ==
    LET cfg == buildAgentConfigFromUser(toolRegistry, userAgent)
        steps == << Resolved("getUserAgent", "active", Some(userAgent), None),
                    Resolved("buildAgentConfigFromUser", "ok",
                             Some(userAgent), Some(cfg)) >>
    IN  /\ toolRegistry' = RegistryAfterBuild(toolRegistry, userAgent)
        /\ \/ SessionAttached(req, userAgent, cfg, steps)
           \/ SessionLoadFails(req, userAgent, cfg, steps)

LookupThrowPropagatesMutant(req) ==
    /\ request' = req
    /\ result' = Some(Thrown("lookup failed"))
    /\ pc' = "Thrown"
    /\ resolveLog' = Append(resolveLog,
                         Resolved("getUserAgent", "throw", None, None))
    /\ UNCHANGED << env, tasks, cache,
                    userAgents, sessions, now, config, agentType,
                    routingStrategy, primaryAgent, sessionId, historyMessages,
                    messages, newMessagesStartIndex, toolsUsed, i, batch, k,
                    response, callLog, fetchLog, execLog, saveLog,
                    toolRegistry >>

\* lines 67-73: getUserAgent threw (the store client could not be built)
LookupThrows(req) ==
    Fallback(req, << Resolved("getUserAgent", "throw", None, None) >>)

\* lines 42, 60-66: what the lookup returned is no active agent
NotActive(req, userAgent) ==
    Fallback(req, << Resolved("getUserAgent",
                              IF IsSome(userAgent) THEN "inactive" ELSE "null",
                              userAgent, None) >>)

\* lines 43, 67-73: buildAgentConfigFromUser threw inside the outer try
BuildFails(req, userAgent) ==
    Fallback(req, << Resolved("getUserAgent", "active", Some(userAgent), None),
                     Resolved("buildAgentConfigFromUser", "throw",
                              Some(userAgent), None) >>)

AgentTypeFirstMutant(req) ==
    /\ pc = "Idle"
    /\ IF IsSome(req.agent_type) \/ ~ Truthy(req.agent_id)
       THEN Classified(req)
       ELSE IF ~ StoreConfigured(env)
       THEN LookupThrows(req)
       ELSE LET userAgent == getUserAgent(userAgents, Get(req.agent_id))
            IN  IF IsSome(userAgent) /\ Get(userAgent).is_active
                THEN IF BuildThrows(Get(userAgent))
                     THEN BuildFails(req, Get(userAgent))
                     ELSE UserAgentPath(req, Get(userAgent))
                ELSE NotActive(req, userAgent)

\* lines 38-80: the resolution.  getUserAgent throws when the store client
\* cannot be built and returns null on every error of the query itself.
Resolve(req) ==
    /\ pc = "Idle"
    /\ IF Truthy(req.agent_id)
       THEN IF ~ StoreConfigured(env)
            THEN LookupThrows(req)
            ELSE LET userAgent == getUserAgent(userAgents, Get(req.agent_id))
                 IN  IF IsSome(userAgent) /\ Get(userAgent).is_active
                     THEN IF BuildThrows(Get(userAgent))
                          THEN BuildFails(req, Get(userAgent))
                          ELSE UserAgentPath(req, Get(userAgent))
                     ELSE NotActive(req, userAgent)
       ELSE Classified(req)

\* runQuery(request), called from outside the HTTP routes
runQuery(req) == Resolve(req) /\ UNCHANGED httpLog

-----------------------------------------------------------------------------
(* runQuery, step 4 (lines 95-196): the ReAct loop *)

\* lines 108-116 and 173-180: the save is skipped without a session, and a
\* failing save is swallowed; ok says whether updateSessionState succeeded
SaveSession(newMessages, ok) ==
    IF IsSome(sessionId)
    THEN /\ saveLog' = Append(saveLog,
                [ sessionId |-> Get(sessionId), existing |-> historyMessages,
                  new |-> newMessages, ok |-> ok, at |-> now ])
         /\ sessions' = IF ok
                        THEN updateSessionState(sessions, Get(sessionId),
                                 Some(saveSessionMessages(historyMessages,
                                                          newMessages, now)),
                                 now)
                        ELSE sessions
         /\ now' = now + 1
    ELSE UNCHANGED << saveLog, sessions, now >>

SaveFailurePropagatesMutant(ok, returned) ==
    IF ok THEN returned ELSE Thrown("Failed to update session state")

\* lines 111-115 and 175-179: try { await saveSessionMessages(...) } catch {}
\* - what runQuery goes on to return after the save succeeded or threw
AfterSave(ok, returned) == returned

\* lines 106-129: the final answer
Done(r) ==
    /\ \E ok \in BOOLEAN :
          /\ IsSome(sessionId) \/ ok
          /\ SaveSession(SliceFrom(messages, newMessagesStartIndex)
                           \o << AssistantMsg(OrElse(r.text, << >>)) >>, ok)
          /\ result' = Some(AfterSave(ok,
                           Returned(DoneContent(r.text),
                               AgentInfo(agentType, primaryAgent,
                                         routingStrategy,
                                         DoneAgentsUsed(toolsUsed)),
                               request.conversation_id)))
    /\ response' = Some(r)
    /\ pc' = "Done"
    /\ UNCHANGED << messages, batch, k, i >>

\* lines 131-141: the assistant message that opens the tool phase
BeginToolPhase(r) ==
    /\ messages' = Append(messages, AssistantToolMsg(r.text, r.toolCalls))
    /\ batch' = r.toolCalls
    /\ k' = 1
    /\ pc' = "ToolPhase"
    /\ UNCHANGED << response, result, sessions, now, saveLog, i >>

\* callTogether / callAnthropic after the key check: one HTTP exchange.  The
\* reply is undefined when the status is not a success (the backend throws).
HttpExchange(provider, opts, reply) ==
    [ backend |-> provider, model |-> BackendModel(provider, opts),
      nMessages |-> Len(opts.messages), reply |-> reply ]

RetryAfterFailureMutant(error) ==
    /\ pc' = "Loop"
    /\ UNCHANGED << result, messages, batch, k, response, sessions, now,
                    saveLog, i >>

SaveBeforeThrowMutant(error) ==
    /\ SaveSession(SliceFrom(messages, newMessagesStartIndex), TRUE)
    /\ result' = Some(Thrown(error))
    /\ pc' = "Thrown"
    /\ UNCHANGED << messages, batch, k, response, i >>

\* A throw of chatCompletion leaves runQuery through no catch
ProviderFailure(error) ==
    /\ result' = Some(Thrown(error))
    /\ pc' = "Thrown"
    /\ UNCHANGED << messages, batch, k, response, sessions, now, saveLog, i >>

\* lines 95-129: one chatCompletion call and the test that follows it.
\* The backend throws when its key is missing (before any HTTP request) or
\* when the HTTP status is not a success; otherwise it answers with some r.
ModelCall(Responses) ==
    /\ pc = "Loop"
    /\ i < MAX_ITERATIONS
    /\ LET opts == CompletionOptions(config, messages, request)
           provider == chatCompletionProvider(opts)
           call == [ dataSensitivity |-> opts.dataSensitivity,
                     model |-> opts.model, provider |-> provider,
                     nMessages |-> Len(opts.messages) ]
       IN  /\ callLog' = Append(callLog, call)
           /\ IF ~ ApiKeyConfigured(env, provider)
              THEN /\ fetchLog' = fetchLog
                   /\ ProviderFailure("API key not configured")
              ELSE \/ /\ fetchLog' = Append(fetchLog,
                                        HttpExchange(provider, opts, None))
                      /\ ProviderFailure("HTTP status not ok")
                   \/ \E r \in Responses :
                         /\ fetchLog' = Append(fetchLog,
                                           HttpExchange(provider, opts, Some(r)))
                         /\ IF IsFinal(r) THEN Done(r) ELSE BeginToolPhase(r)
    /\ UNCHANGED << env, tasks, cache,
                    httpLog, userAgents, request, config, agentType,
                    routingStrategy, primaryAgent, sessionId, historyMessages,
                    newMessagesStartIndex, toolsUsed, execLog, toolRegistry,
                    resolveLog >>

ToolOfRegistryMutant(cfg, name) == name \in Range(NewToolRegistry)

\* line 145: config.tools.find((t) => t.name === toolCall.name) found a tool
FindTool(cfg, name) == name \in Range(cfg.tools)

ListEveryCallMutant(used, name, outcome) == Append(used, name)

\* line 155: toolsUsed.push(toolCall.name), reached when execute returned
ToolsUsedAfter(used, name, outcome) ==
    IF outcome.kind = "result" THEN Append(used, name) ELSE used

\* lines 145-162: the text of the tool-role message of one call
ToolResultText(cfg, toolCall, outcome) ==
    IF FindTool(cfg, toolCall.name)
    THEN IF outcome.kind = "result"
         THEN ResultText(outcome.content)
         ELSE ErrorPayload(<< "Tool execution failed: ", outcome.error >>)
    ELSE ErrorPayload(<< "Unknown tool: ", toolCall.name >>)

\* What tool.execute did: returned a result with content segments, or threw
ToolResult(content) == [ kind |-> "result", content |-> content, error |-> "" ]

ToolThrow(error) == [ kind |-> "throw", content |-> << >>, error |-> error ]

\* No tool of that name: nothing was executed
NotExecuted == [ kind |-> "none", content |-> << >>, error |-> "" ]

ReverseOrderMutant(calls, pos) == calls[Len(calls) - pos + 1]

\* for (const toolCall of response.toolCalls): the call at position pos
CallAt(calls, pos) == calls[pos]

SkipRestOfBatchMutant(calls, pos, outcome) ==
    pos = Len(calls) \/ outcome.kind = "throw"

CallModelAfterFirstToolMutant(calls, pos, outcome) ==
    pos = 1 \/ pos = Len(calls)

BatchNeverFinishedMutant(calls, pos, outcome) == FALSE

\* The for-of loop ends after the last call, whatever the calls did
BatchFinished(calls, pos, outcome) == pos = Len(calls)

\* lines 144-169: one pass of the for-of loop over response.toolCalls; after
\* the last call of the batch the for loop takes its next iteration (i++)
ExecTool(Outcomes) ==
    /\ pc = "ToolPhase"
    /\ k <= Len(batch)
    /\ LET toolCall == CallAt(batch, k)
           known == FindTool(config, toolCall.name)
       IN  \E outcome \in (IF known THEN Outcomes ELSE { NotExecuted }) :
            /\ execLog' = IF known
                          THEN Append(execLog, [ name |-> toolCall.name,
                                   id |-> toolCall.id, iteration |-> i,
                                   position |-> k, outcome |-> outcome ])
                          ELSE execLog
            /\ toolsUsed' = IF known
                            THEN ToolsUsedAfter(toolsUsed, toolCall.name,
                                                outcome)
                            ELSE toolsUsed
            /\ messages' = Append(messages,
                   ToolMsg(ToolResultText(config, toolCall, outcome),
                           toolCall.id))
            /\ IF BatchFinished(batch, k, outcome)
               THEN pc' = "Loop" /\ i' = i + 1
               ELSE pc' = "ToolPhase" /\ i' = i
    /\ k' = k + 1
    /\ UNCHANGED << env, tasks, cache,
                    httpLog, userAgents, sessions, now, request, config, agentType,
                    routingStrategy, primaryAgent, sessionId, historyMessages,
                    newMessagesStartIndex, batch, response, result, callLog,
                    fetchLog, saveLog, toolRegistry, resolveLog >>

\* lines 172-195: the iteration bound is reached
Exhausted ==
    /\ pc = "Loop"
    /\ i >= MAX_ITERATIONS
    /\ \E ok \in BOOLEAN :
          /\ IsSome(sessionId) \/ ok
          /\ SaveSession(SliceFrom(messages, newMessagesStartIndex), ok)
          /\ result' = Some(AfterSave(ok,
                           Returned(ExhaustedContent(messages),
                               AgentInfo(agentType, primaryAgent,
                                         routingStrategy,
                                         ExhaustedAgentsUsed(toolsUsed)),
                               request.conversation_id)))
    /\ pc' = "Exhausted"
    /\ UNCHANGED << env, tasks, cache,
                    httpLog, userAgents, request, config, agentType,
                    routingStrategy, primaryAgent, sessionId, historyMessages,
                    messages, newMessagesStartIndex, toolsUsed, i, batch, k,
                    response, callLog, fetchLog, execLog, toolRegistry,
                    resolveLog >>

-----------------------------------------------------------------------------
(* The environment of one request *)

UserAgentRow(id, userId, type, prompt, tools, modelPref, active) ==
    [ id |-> id, user_id |-> userId, agent_type |-> type,
      system_prompt |-> prompt, tools_enabled |-> tools,
      model_preference |-> modelPref, is_active |-> active ]

\* The window left by n earlier turns that needed no tool: a user message and
\* the final assistant message per turn, stamped by the save of that turn
PriorTurns(n) ==
    [ j \in 1..(2 * n) |->
        Msg(IF j % 2 = 1 THEN "user" ELSE "assistant",
            IF j % 2 = 1 THEN << "question" >> ELSE << "answer" >>,
            None, None, Some((j + 1) \div 2)) ]

\* The agent_sessions table after n such turns of (u1, a1, c1)
SessionsAfter(n) ==
    IF n = 0 THEN << >>
    ELSE << SessionRow(1, "u1", "a1", "c1", Some(Window(PriorTurns(n))), n) >>

AllKeys ==
    [ TOGETHER_API_KEY |-> TRUE, ANTHROPIC_API_KEY |-> TRUE,
      SUPABASE_URL |-> TRUE, SUPABASE_KEY |-> TRUE,
      ONEVICE_SERVICE_KEY |-> "secret",
      FOLK_API_KEY_1 |-> "k1", FOLK_API_KEY_2 |-> "k2" ]

InitWith(Envs, AgentStores, SessionTables) ==
    /\ env \in Envs
    /\ userAgents \in AgentStores
    /\ sessions \in SessionTables
    /\ now = 100
    /\ pc = "Idle"
    /\ request = None
    /\ config = None
    /\ agentType = ""
    /\ routingStrategy = ""
    /\ primaryAgent = << >>
    /\ sessionId = None
    /\ historyMessages = << >>
    /\ messages = << >>
    /\ newMessagesStartIndex = 0
    /\ toolsUsed = << >>
    /\ i = 0
    /\ batch = << >>
    /\ k = 1
    /\ response = None
    /\ result = None
    /\ callLog = << >>
    /\ fetchLog = << >>
    /\ execLog = << >>
    /\ saveLog = << >>
    /\ toolRegistry = None
    /\ resolveLog = << >>
    /\ httpLog = << >>
    /\ cache = { }
    /\ tasks = << >>

-----------------------------------------------------------------------------
(* Spec: the reasoning loop under every behaviour of the provider and the  *)
(* tools, for one request on each routing path                             *)

LoopAgents ==
    "a1" :> UserAgentRow("a1", "u1", "custom", None,
                         Some(<< "get_person_details", "broad_vector_search",
                                 "retired_tool" >>),
                         << "together", "/", "llama" >>, TRUE)

LoopRequests ==
    { QueryRequest(<< "Budget", "rate" >>, "u1", 2, "c1", agentId, type) :
        agentId \in { None, Some("a1") }, type \in { None, Some("talent") } }

\* What the provider may answer
LoopResponses ==
    { ChatResponse(<< "final" >>, "stop", << >>),
      ChatResponse(<< >>, "stop",
                   << ToolCall("c4", "broad_vector_search") >>),
      ChatResponse(<< >>, "unknown", << >>),
      ChatResponse(<< "partial" >>, "tool_calls",
                   << ToolCall("c1", "get_person_details"),
                      ToolCall("c2", "no_such_tool"),
                      ToolCall("c3", "broad_vector_search") >>),
      ChatResponse(<< >>, "unknown",
                   << ToolCall("c4", "broad_vector_search") >>) }

\* What a tool execution may do
LoopOutcomes ==
    { ToolResult(<< [ type |-> "text", text |-> << "r1" >> ],
                    [ type |-> "image", text |-> << "png" >> ],
                    [ type |-> "text", text |-> << "r2" >> ] >>),
      ToolThrow("boom") }

Init == InitWith({ AllKeys }, { LoopAgents }, { SessionsAfter(9) })

Next ==
    \/ \E req \in LoopRequests : runQuery(req)
    \/ ModelCall(LoopResponses)
    \/ ExecTool(LoopOutcomes)
    \/ Exhausted

Spec == Init /\ [][Next]_vars

-----------------------------------------------------------------------------
(* SpecRouter: every sensitivity level, model preference and key setting,  *)
(* with a provider that answers at once or asks for one tool per call      *)

ModelPreferences ==
    { << "together", "/", "llama" >>,
      << "anthropic", "/", "claude-sonnet-4-6" >>,
      << "claude-sonnet-4-6" >>,
      << "meta-llama", "/", "Llama-3.3-70B-Instruct-Turbo" >>,
      << "together", "/", "anthropic", "/", "claude-sonnet-4-6" >>,
      << "anthropic", "/" >>,
      << >> }

RouterEnvs ==
    [ TOGETHER_API_KEY : BOOLEAN, ANTHROPIC_API_KEY : BOOLEAN,
      SUPABASE_URL : BOOLEAN, SUPABASE_KEY : BOOLEAN,
      ONEVICE_SERVICE_KEY : { "secret" },
      FOLK_API_KEY_1 : { "k1" }, FOLK_API_KEY_2 : { "k2" } ]

RouterAgents ==
    { "a1" :> UserAgentRow("a1", "u1", "bidding", Some("be brief"), Some(<< >>),
                           pref, TRUE) : pref \in ModelPreferences }

RouterRequests ==
    { QueryRequest(<< "Hello" >>, "u1", level, "c1", agentId, None) :
        level \in DataSensitivityLevels, agentId \in { None, Some("a1") } }

RouterResponses ==
    { ChatResponse(<< "final" >>, "stop", << >>),
      ChatResponse(<< >>, "tool_calls",
                   << ToolCall("c1", "get_person_details") >>) }

RouterOutcomes == { ToolResult(<< [ type |-> "text", text |-> << "r1" >> ] >>) }

InitRouter == InitWith(RouterEnvs, RouterAgents, { SessionsAfter(0) })

NextRouter ==
    \/ \E req \in RouterRequests : runQuery(req)
    \/ ModelCall(RouterResponses)
    \/ ExecTool(RouterOutcomes)
    \/ Exhausted

SpecRouter == InitRouter /\ [][NextRouter]_vars

-----------------------------------------------------------------------------
(* SpecResolve: every way the resolution can go (stored agent active,      *)
(* inactive, missing or unreadable; agent id and agent type present,       *)
(* empty or absent), with a provider that answers at once or asks for a    *)
(* tool                                                                    *)

\* A stored standard agent that overrides the prompt and the tool subset
StandardAgent ==
    UserAgentRow("a1", "u1", "sales", Some("be brief"),
                 Some(<< "get_project_details", "retired_tool" >>),
                 << "anthropic", "/", "claude-sonnet-4-6" >>, TRUE)

\* A row whose tools_enabled column holds null (the update route stores what
\* the body carries without checking it)
UnreadableAgent ==
    UserAgentRow("a1", "u1", "custom", Some("be brief"), None,
                 << "together", "/", "llama" >>, TRUE)

ResolveAgents ==
    { LoopAgents,
      "a1" :> StandardAgent,
      "a1" :> [ StandardAgent EXCEPT !.is_active = FALSE ],
      "a1" :> UnreadableAgent,
      << >> }

ResolveRequests ==
    { QueryRequest(message, "u1", 2, "c1", agentId, type) :
        message \in { << "Budget", "rate" >>, << "hello" >> },
        agentId \in { None, Some(""), Some("a1") },
        type \in { None, Some(""), Some("talent"), Some("unknown") } }

ResolveResponses ==
    { ChatResponse(<< "final" >>, "stop", << >>),
      ChatResponse(<< >>, "tool_calls",
                   << ToolCall("c1", "get_project_details"),
                      ToolCall("c2", "no_such_tool") >>) }

ResolveOutcomes ==
    { ToolResult(<< [ type |-> "text", text |-> << "r1" >> ] >>),
      ToolThrow("boom") }

\* The environment without the store's URL
NoStoreUrl == [ AllKeys EXCEPT !.SUPABASE_URL = FALSE ]

InitResolve ==
    InitWith({ AllKeys, NoStoreUrl }, ResolveAgents, { SessionsAfter(1) })

NextResolve ==
    \/ \E req \in ResolveRequests : runQuery(req)
    \/ ModelCall(ResolveResponses)
    \/ ExecTool(ResolveOutcomes)
    \/ Exhausted

SpecResolve == InitResolve /\ [][NextResolve]_vars

-----------------------------------------------------------------------------
(* SpecClassify: classifyQuery on every message of at most MaxWords words  *)
(* of a vocabulary with keywords of the three sets, capitals, words that   *)
(* contain a keyword and words that contain none                           *)

MaxWords == 3

Vocabulary ==
    { "lead", "client", "leader", "crew", "Crew", "directors", "budget",
      "Budget", "rate", "corporate", "line", "item", "hello" }

ClassifyMessages ==
    UNION { [ 1..n -> Vocabulary ] : n \in 0..MaxWords }

\* classifyQuery(request.message), as lines 62, 69 and 76 call it
Classify ==
    /\ pc = "Idle"
    /\ \E message \in ClassifyMessages :
          /\ request' = QueryRequest(message, "u1", 1, "c1", None, None)
          /\ agentType' = classifyQuery(message)
    /\ pc' = "Classified"
    /\ UNCHANGED << env, tasks, cache,
                    httpLog, userAgents, sessions, now, config, routingStrategy,
                    primaryAgent, sessionId, historyMessages, messages,
                    newMessagesStartIndex, toolsUsed, i, batch, k, response,
                    result, callLog, fetchLog, execLog, saveLog, toolRegistry,
                    resolveLog >>

InitClassify == InitWith({ AllKeys }, { LoopAgents }, { SessionsAfter(0) })

NextClassify == Classify

SpecClassify == InitClassify /\ [][NextClassify]_vars

-----------------------------------------------------------------------------
(* SpecFactory: the agent factory over the life of one process: builds of  *)
(* a stored definition, builds of another agent, listings of the tool      *)
(* names and edits of the definition, in any order                         *)

MaxBuilds == 3

MaxTools == 3

ToolLists ==
    UNION { [ 1..n -> { "list_folk_groups", "retired_tool",
                        "get_person_details" } ] : n \in 0..MaxTools }

FactoryRows ==
    { UserAgentRow("a1", "u1", type, prompt, Some(tools),
                   << "together", "/", "llama" >>, TRUE) :
        type \in { "custom", "talent" },
        prompt \in { None, Some(""), Some("be brief") },
        tools \in ToolLists }

\* A second agent of the same user: custom, no prompt, no tools
OtherAgent ==
    UserAgentRow("a2", "u1", "custom", None, Some(<< >>),
                 << "claude-sonnet-4-6" >>, TRUE)

FactoryStores ==
    { ("a1" :> row) @@ ("a2" :> OtherAgent) : row \in FactoryRows }

\* config = buildAgentConfigFromUser(userAgent), as line 43 calls it
FactoryBuild ==
    /\ i < MaxBuilds
    /\ \E id \in DOMAIN userAgents :
          LET userAgent == userAgents[id]
              cfg == buildAgentConfigFromUser(toolRegistry, userAgent)
          IN  /\ config' = cfg
              /\ toolRegistry' = RegistryAfterBuild(toolRegistry, userAgent)
              /\ resolveLog' = Append(resolveLog,
                     Resolved("buildAgentConfigFromUser", "ok",
                              Some(userAgent), Some(cfg)))
    /\ i' = i + 1
    /\ pc' = "Built"
    /\ UNCHANGED << env, tasks, cache,
                    httpLog, userAgents, sessions, now, request, agentType,
                    routingStrategy, primaryAgent, sessionId, historyMessages,
                    messages, newMessagesStartIndex, toolsUsed, batch, k,
                    response, result, callLog, fetchLog, execLog, saveLog >>

\* getValidToolNames(), as the agent routes call it to validate a body
FactoryListNames ==
    /\ i < MaxBuilds
    /\ toolRegistry' = Some(getToolRegistry(toolRegistry))
    /\ resolveLog' = Append(resolveLog,
           Resolved("getValidToolNames", "ok", None,
                    Some(getValidToolNames(toolRegistry))))
    /\ i' = i + 1
    /\ pc' = "Listed"
    /\ UNCHANGED << env, tasks, cache,
                    httpLog, userAgents, sessions, now, request, config, agentType,
                    routingStrategy, primaryAgent, sessionId, historyMessages,
                    messages, newMessagesStartIndex, toolsUsed, batch, k,
                    response, result, callLog, fetchLog, execLog, saveLog >>

\* updateUserAgent("a1", updates): the tools are cleared or the prompt is set
FactoryUpdate ==
    /\ i < MaxBuilds
    /\ \E row \in { [ userAgents["a1"] EXCEPT !.tools_enabled = Some(<< >>) ],
                     [ userAgents["a1"] EXCEPT !.system_prompt = Some("edited") ] } :
          /\ userAgents' = [ userAgents EXCEPT !["a1"] = row ]
          /\ resolveLog' = Append(resolveLog,
                 Resolved("updateUserAgent", "ok", Some(row), None))
    /\ i' = i + 1
    /\ pc' = "Updated"
    /\ UNCHANGED << env, tasks, cache,
                    httpLog, sessions, now, request, config, agentType,
                    routingStrategy, primaryAgent, sessionId, historyMessages,
                    messages, newMessagesStartIndex, toolsUsed, batch, k,
                    response, result, callLog, fetchLog, execLog, saveLog,
                    toolRegistry >>

InitFactory == InitWith({ AllKeys }, FactoryStores, { SessionsAfter(0) })

NextFactory == FactoryBuild \/ FactoryListNames \/ FactoryUpdate

SpecFactory == InitFactory /\ [][NextFactory]_vars

-----------------------------------------------------------------------------
(* SpecSession: the session manager's operations in any order on the       *)
(* session of one (user, agent, conversation) triple                       *)

MaxOps == 4

\* Lengths of the new-message list of one turn: 1 + sum(1 + batch) (+ 1)
NewLengths == { 2, 5, 21 }

\* The n messages of turn number t; every second one already carries a
\* capture time when stamped is TRUE
TurnMessages(t, n, stamped) ==
    [ j \in 1..n |->
        Msg(IF j = 1 THEN "user" ELSE "assistant",
            << "turn", ToString(t), "message", ToString(j) >>,
            None, None,
            IF stamped /\ j % 2 = 0 THEN Some(j) ELSE None) ]

\* loadSessionMessages(u1, a1, c1)
SessLoad ==
    /\ i < MaxOps
    /\ LET row == getOrCreateSessionRow(sessions, "u1", "a1", "c1", now)
       IN  /\ sessionId' = Some(row.id)
           /\ historyMessages' = SessionMessagesOf(row)
    /\ sessions' = getOrCreateSessionTable(sessions, "u1", "a1", "c1", now)
    /\ now' = now + 1
    /\ i' = i + 1
    /\ pc' = "Loaded"
    /\ UNCHANGED << env, tasks, cache,
                    httpLog, userAgents, request, config, agentType,
                    routingStrategy, primaryAgent, messages,
                    newMessagesStartIndex, toolsUsed, batch, k, response,
                    result, callLog, fetchLog, execLog, saveLog, toolRegistry,
                    resolveLog >>

\* saveSessionMessages(sessionId, historyMessages, newMessages)
SessSave ==
    /\ i < MaxOps
    /\ IsSome(sessionId)
    /\ \E n \in NewLengths, stamped \in BOOLEAN, ok \in BOOLEAN :
          /\ messages' = TurnMessages(i, n, stamped)
          /\ SaveSession(messages', ok)
    /\ i' = i + 1
    /\ pc' = "Saved"
    /\ UNCHANGED << env, tasks, cache,
                    httpLog, userAgents, request, config, agentType,
                    routingStrategy, primaryAgent, sessionId, historyMessages,
                    newMessagesStartIndex, toolsUsed, batch, k, response,
                    result, callLog, fetchLog, execLog, toolRegistry,
                    resolveLog >>

\* clearSessionMessages(sessionId)
SessClear ==
    /\ i < MaxOps
    /\ IsSome(sessionId)
    /\ sessions' = updateSessionState(sessions, Get(sessionId), Some(<< >>), now)
    /\ now' = now + 1
    /\ i' = i + 1
    /\ pc' = "Cleared"
    /\ UNCHANGED << env, tasks, cache,
                    httpLog, userAgents, request, config, agentType,
                    routingStrategy, primaryAgent, sessionId, historyMessages,
                    messages, newMessagesStartIndex, toolsUsed, batch, k,
                    response, result, callLog, fetchLog, execLog, saveLog,
                    toolRegistry, resolveLog >>

\* A table that also holds the sessions of another user and of another
\* conversation with the same agent
SessionsOfThree ==
    << SessionRow(1, "u2", "a1", "c1", Some(PriorTurns(1)), 1),
       SessionRow(2, "u1", "a1", "c1", Some(Window(PriorTurns(9))), 9),
       SessionRow(3, "u1", "a1", "c2", Some(PriorTurns(2)), 2) >>

InitSession ==
    InitWith({ AllKeys }, { LoopAgents },
             { SessionsAfter(0), SessionsAfter(9), SessionsOfThree })

NextSession == SessLoad \/ SessSave \/ SessClear

SpecSession == InitSession /\ [][NextSession]_vars

-----------------------------------------------------------------------------
(* extensions/onevice-api: service-auth.ts and routes.ts.  An HTTP request  *)
(* is the x-service-key header, the user id of its user-context header,    *)
(* the path parameter and the parsed JSON body.  The user-context header   *)
(* carries no data_sensitivity and a query body carries a conversation id. *)

HttpRequest(key, user, param, body) ==
    [ key |-> key, user |-> user, param |-> param, body |-> body ]

AcceptAnyKeyMutant(e, req) == TRUE

\* validateServiceKey: a key is configured and the header is equal to it
validateServiceKey(e, req) ==
    /\ e.ONEVICE_SERVICE_KEY # ""
    /\ IsSome(req.key)
    /\ Get(req.key) = e.ONEVICE_SERVICE_KEY

\* One entry of httpLog: the route, the request, the status answered (0 while
\* no answer has been sent) and what the handler went on to do
Handled(route, req, status, did) ==
    [ route |-> route, request |-> req, status |-> status, did |-> did ]

\* The local variables of the runQuery call in flight and the logs of it
frame ==
    << pc, request, config, agentType, routingStrategy, primaryAgent,
       sessionId, historyMessages, messages, newMessagesStartIndex, toolsUsed,
       i, batch, k, response, result, callLog, fetchLog, execLog, saveLog >>

\* A handler that answers and changes nothing in the stores
Answer(route, req, status, did) ==
    /\ httpLog' = Append(httpLog, Handled(route, req, status, did))
    /\ UNCHANGED << env, tasks, cache,
                    userAgents, sessions, now, toolRegistry, resolveLog,
                    frame >>

\* routes.ts lines 270-281 and 315-326: the request handed to runQuery
OrchestratorRequest(req, agentTypeOpt) ==
    QueryRequest(Get(req.body).message,
                 IF IsSome(req.user) THEN Get(req.user) ELSE "anonymous",
                 1, Get(req.body).conversation_id, Get(req.body).agent_id,
                 agentTypeOpt)

MaxHandled == 3

\* createQueryHandler and createAgentQueryHandler up to the call of runQuery
\* (which takes its first step, the resolution, here)
StartQuery(route, req, agentTypeOpt) ==
    IF ~ validateServiceKey(env, req)
    THEN Answer(route, req, 401, { })
    ELSE IF ~ IsSome(req.body) \/ Get(req.body).message = << >>
    THEN Answer(route, req, 400, { "body" })
    ELSE /\ Resolve(OrchestratorRequest(req, agentTypeOpt))
         /\ httpLog' = Append(httpLog,
                Handled(route, req, 0, { "body", "runQuery" }))

\* POST /onevice/query
QueryRoute(HttpRequests) ==
    /\ Len(httpLog) < MaxHandled
    /\ \E req \in HttpRequests :
          StartQuery("query", req,
                     IF IsSome(req.body) THEN Get(req.body).agent_type ELSE None)

\* POST /onevice/agents/:type/query
AgentQueryRoute(HttpRequests) ==
    /\ Len(httpLog) < MaxHandled
    /\ \E req \in HttpRequests : StartQuery("agent_query", req, Some(req.param))

\* lines 283-289 and 328-334: runQuery returned or threw, the handler answers
\* and the call's frame is gone
Respond ==
    /\ pc \in { "Done", "Exhausted", "Thrown" }
    /\ httpLog' =
          [ j \in 1..Len(httpLog) |->
              IF httpLog[j].status = 0 /\ "runQuery" \in httpLog[j].did
              THEN [ httpLog[j] EXCEPT !.status =
                        IF Get(result).kind = "response" THEN 200 ELSE 500 ]
              ELSE httpLog[j] ]
    /\ pc' = "Idle"
    /\ request' = None
    /\ config' = None
    /\ agentType' = ""
    /\ routingStrategy' = ""
    /\ primaryAgent' = << >>
    /\ sessionId' = None
    /\ historyMessages' = << >>
    /\ messages' = << >>
    /\ newMessagesStartIndex' = 0
    /\ toolsUsed' = << >>
    /\ i' = 0
    /\ batch' = << >>
    /\ k' = 1
    /\ response' = None
    /\ result' = None
    /\ callLog' = << >>
    /\ fetchLog' = << >>
    /\ execLog' = << >>
    /\ saveLog' = << >>
    /\ UNCHANGED << env, tasks, cache,
                    userAgents, sessions, now, toolRegistry, resolveLog >>

\* GET /onevice/status: createStatusHandler checks no key and reads nothing
StatusRoute(HttpRequests) ==
    /\ Len(httpLog) < MaxHandled
    /\ \E req \in HttpRequests : Answer("status", req, 200, { })

\* A store operation of a route inside its try: 500 when the store client
\* cannot be built
StoreFailure(route, req, did) == Answer(route, req, 500, did \cup { "store" })

\* GET /onevice/agents
ListAgentsRoute(HttpRequests) ==
    /\ Len(httpLog) < MaxHandled
    /\ \E req \in HttpRequests :
          IF ~ validateServiceKey(env, req) THEN Answer("list", req, 401, { })
          ELSE IF ~ IsSome(req.user) THEN Answer("list", req, 400, { })
          ELSE IF ~ StoreConfigured(env) THEN StoreFailure("list", req, { })
          ELSE Answer("list", req, 200, { "store" })

VALID_AGENT_TYPES == { "sales", "talent", "bidding", "custom" }

\* body.tools_enabled && body.tools_enabled.length > 0: names to validate
ToolsToValidate(body) ==
    IF "tools_enabled" \in DOMAIN body /\ IsSome(body.tools_enabled)
    THEN Get(body.tools_enabled) ELSE << >>

\* The tools validation of the create and update routes: the names the
\* registry does not know
InvalidTools(registry, body) ==
    LET Invalid(name) == name \notin Range(getValidToolNames(registry))
    IN  SelectSeq(ToolsToValidate(body), Invalid)

\* The registry after the validation, which lists the names only when the
\* body enables a tool
RegistryAfterValidation(registry, body) ==
    IF ToolsToValidate(body) # << >> THEN Some(getToolRegistry(registry))
    ELSE registry

AgentIds == { "a1", "a2", "a3" }

\* The id the store gives a new row
NewAgentId(tbl) == CHOOSE id \in AgentIds : id \notin DOMAIN tbl

\* createUserAgent, as lines 444-453 call it
createUserAgent(tbl, userId, body) ==
    LET id == NewAgentId(tbl)
    IN  tbl @@ (id :> UserAgentRow(id, userId, body.agent_type,
                       IF "system_prompt" \in DOMAIN body
                       THEN body.system_prompt ELSE None,
                       IF "tools_enabled" \in DOMAIN body
                          /\ IsSome(body.tools_enabled)
                       THEN body.tools_enabled ELSE Some(<< >>),
                       IF "model_preference" \in DOMAIN body
                       THEN body.model_preference
                       ELSE DEFAULT_TOGETHER_MODEL,
                       TRUE))

\* POST /onevice/agents
CreateAgentRoute(HttpRequests) ==
    /\ Len(httpLog) < MaxHandled
    /\ \E req \in HttpRequests :
          IF ~ validateServiceKey(env, req) THEN Answer("create", req, 401, { })
          ELSE IF ~ IsSome(req.user) THEN Answer("create", req, 400, { })
          ELSE IF \/ ~ IsSome(req.body)
                  \/ "agent_type" \notin DOMAIN Get(req.body)
                  \/ Get(req.body).agent_type \notin VALID_AGENT_TYPES
          THEN Answer("create", req, 400, { "body" })
          ELSE IF InvalidTools(toolRegistry, Get(req.body)) # << >>
          THEN /\ httpLog' = Append(httpLog,
                      Handled("create", req, 400, { "body" }))
               /\ toolRegistry' =
                      RegistryAfterValidation(toolRegistry, Get(req.body))
               /\ UNCHANGED << env, tasks, cache,
                               userAgents, sessions, now, resolveLog,
                               frame >>
          ELSE /\ DOMAIN userAgents # AgentIds
               /\ toolRegistry' =
                      RegistryAfterValidation(toolRegistry, Get(req.body))
               /\ IF StoreConfigured(env)
                  THEN /\ userAgents' = createUserAgent(userAgents,
                                            Get(req.user), Get(req.body))
                       /\ httpLog' = Append(httpLog,
                              Handled("create", req, 201, { "body", "store" }))
                  ELSE /\ userAgents' = userAgents
                       /\ httpLog' = Append(httpLog,
                              Handled("create", req, 500, { "body", "store" }))
               /\ UNCHANGED << env, tasks, cache,
                               sessions, now, resolveLog, frame >>

ExistenceOnlyMutant(req) ==
    IF ~ IsSome(getUserAgent(userAgents, req.param)) THEN 404 ELSE 0

\* The ownership check of the update and delete routes (lines 484-493 and
\* 558-567): 0 when the handler goes on.  getUserAgent is called outside
\* the try, so without a store client the handler throws and answers nothing.
OwnershipStatus(req) ==
    LET existing == getUserAgent(userAgents, req.param)
    IN  IF ~ IsSome(existing) THEN 404
        ELSE IF Get(existing).user_id # Get(req.user) THEN 403
        ELSE 0

\* updateUserAgent: update({ ...updates }).eq("id", agentId)
updateUserAgent(tbl, agentId, updates) ==
    [ tbl EXCEPT ![agentId] =
        [ f \in DOMAIN tbl[agentId] |->
            IF f \in DOMAIN updates THEN updates[f] ELSE tbl[agentId][f] ] ]

\* deactivateUserAgent: update({ is_active: false }).eq("id", agentId)
deactivateUserAgent(tbl, agentId) ==
    [ tbl EXCEPT ![agentId].is_active = FALSE ]

\* PUT /onevice/agents/:id
UpdateAgentRoute(HttpRequests) ==
    /\ Len(httpLog) < MaxHandled
    /\ \E req \in HttpRequests :
          IF ~ validateServiceKey(env, req) THEN Answer("update", req, 401, { })
          ELSE IF ~ IsSome(req.user) THEN Answer("update", req, 400, { })
          ELSE IF ~ StoreConfigured(env)
          THEN Answer("update", req, 0, { "store" })
          ELSE IF OwnershipStatus(req) # 0
          THEN Answer("update", req, OwnershipStatus(req), { "store" })
          ELSE IF ~ IsSome(req.body)
          THEN Answer("update", req, 400, { "store", "body" })
          ELSE IF InvalidTools(toolRegistry, Get(req.body)) # << >>
          THEN /\ httpLog' = Append(httpLog,
                      Handled("update", req, 400, { "store", "body" }))
               /\ toolRegistry' =
                      RegistryAfterValidation(toolRegistry, Get(req.body))
               /\ UNCHANGED << env, tasks, cache,
                               userAgents, sessions, now, resolveLog,
                               frame >>
          ELSE /\ userAgents' =
                      updateUserAgent(userAgents, req.param, Get(req.body))
               /\ toolRegistry' =
                      RegistryAfterValidation(toolRegistry, Get(req.body))
               /\ resolveLog' = Append(resolveLog,
                      Resolved("updateUserAgent", "ok",
                               Some(userAgents'[req.param]), None))
               /\ httpLog' = Append(httpLog,
                      Handled("update", req, 200, { "store", "body" }))
               /\ UNCHANGED << env, tasks, cache,
                               sessions, now, frame >>

\* DELETE /onevice/agents/:id
DeleteAgentRoute(HttpRequests) ==
    /\ Len(httpLog) < MaxHandled
    /\ \E req \in HttpRequests :
          IF ~ validateServiceKey(env, req) THEN Answer("delete", req, 401, { })
          ELSE IF ~ IsSome(req.user) THEN Answer("delete", req, 400, { })
          ELSE IF ~ StoreConfigured(env)
          THEN Answer("delete", req, 0, { "store" })
          ELSE IF OwnershipStatus(req) # 0
          THEN Answer("delete", req, OwnershipStatus(req), { "store" })
          ELSE /\ userAgents' =
                      deactivateUserAgent(userAgents, req.param)
               /\ resolveLog' = Append(resolveLog,
                      Resolved("deactivateUserAgent", "ok",
                               Some(userAgents'[req.param]), None))
               /\ httpLog' = Append(httpLog,
                      Handled("delete", req, 200, { "store" }))
               /\ UNCHANGED << env, tasks, cache,
                               sessions, now, toolRegistry, frame >>

-----------------------------------------------------------------------------
(* SpecEdit: queries that name a stored agent, between and during edits    *)
(* and deactivations of that agent, all with the valid service key         *)

EditKey == Some("secret")

EditQueries ==
    { HttpRequest(EditKey, Some("u1"), "",
          Some([ message |-> << "Budget", "rate" >>, conversation_id |-> "c1",
                 agent_id |-> Some("a1"), agent_type |-> type ])) :
        type \in { None, Some("talent") } }

\* Bodies of PUT /onevice/agents/a1: a new prompt, a new tool list, a null
\* tool list, a new category
EditBodies ==
    { "system_prompt" :> Some("edited"),
      "tools_enabled" :> Some(<< "get_person_details" >>),
      "tools_enabled" :> None,
      "agent_type" :> "talent" }

EditUpdates ==
    { HttpRequest(EditKey, Some("u1"), "a1", Some(body)) : body \in EditBodies }

EditDeletes == { HttpRequest(EditKey, Some("u1"), "a1", None) }

EditResponses == { ChatResponse(<< "final" >>, "stop", << >>) }

InitEdit ==
    InitWith({ AllKeys }, { "a1" :> StandardAgent }, { SessionsAfter(1) })

NextEdit ==
    \/ QueryRoute(EditQueries)
    \/ UpdateAgentRoute(EditUpdates)
    \/ DeleteAgentRoute(EditDeletes)
    \/ ModelCall(EditResponses)
    \/ Respond

SpecEdit == InitEdit /\ [][NextEdit]_vars

-----------------------------------------------------------------------------
(* SpecRoutes: every route of the service, called with the valid key, a    *)
(* wrong key, an empty key or none, in a service with or without a         *)
(* configured key                                                          *)

RouteKeys == { None, Some(""), Some("wrong!"), Some("secret") }

NoServiceKey == [ AllKeys EXCEPT !.ONEVICE_SERVICE_KEY = "" ]

RouteQueries ==
    { HttpRequest(key, Some("u1"), "talent",
          Some([ message |-> << "hello" >>, conversation_id |-> "c1",
                 agent_id |-> Some("a1"), agent_type |-> None ])) :
        key \in RouteKeys }

RouteReads == { HttpRequest(key, Some("u1"), "", None) : key \in RouteKeys }

RouteCreates ==
    { HttpRequest(key, Some("u1"), "",
          Some([ agent_type |-> "custom", tools_enabled |-> Some(tools) ])) :
        key \in RouteKeys,
        tools \in { << "list_folk_groups" >>, << "retired_tool" >> } }

RouteUpdates ==
    { HttpRequest(key, Some("u1"), "a1", Some("system_prompt" :> Some("edited"))) :
        key \in RouteKeys }

RouteDeletes == { HttpRequest(key, Some("u1"), "a1", None) : key \in RouteKeys }

InitRoutes ==
    InitWith({ AllKeys, NoServiceKey }, { LoopAgents }, { SessionsAfter(0) })

NextRoutes ==
    \/ QueryRoute(RouteQueries)
    \/ AgentQueryRoute(RouteQueries)
    \/ StatusRoute(RouteReads)
    \/ ListAgentsRoute(RouteReads)
    \/ CreateAgentRoute(RouteCreates)
    \/ UpdateAgentRoute(RouteUpdates)
    \/ DeleteAgentRoute(RouteDeletes)

SpecRoutes == InitRoutes /\ [][NextRoutes]_vars

-----------------------------------------------------------------------------
(* SpecBackend: what callTogether and callAnthropic make of the bodies the *)
(* two backends answer with                                                *)

MaxReplies == 2

\* tool_calls entries of a Together message
TogetherCall(id, name) ==
    [ id |-> id, function |-> [ name |-> name, arguments |-> JSONstringify("{}") ] ]

TogetherChoices ==
    { [ message |-> [ content |-> content, tool_calls |-> calls ],
        finish_reason |-> reason ] :
        content \in { None, Some(<< "hi" >>) },
        calls \in { None, Some(<< >>),
                    Some(<< TogetherCall("c1", "get_person_details") >>),
                    Some(<< TogetherCall("c2", "list_folk_groups"),
                            TogetherCall("c1", "get_person_details"),
                            TogetherCall("c3", "get_person_details") >>) },
        reason \in { "stop", "tool_calls", "length", "content_filter" } }

TextBlock(text) ==
    [ type |-> "text", text |-> text, id |-> "", name |-> "", input |-> None ]

ToolUseBlock(id, name, input) ==
    [ type |-> "tool_use", text |-> None, id |-> id, name |-> name,
      input |-> input ]

AnthropicContents ==
    { << >>,
      << TextBlock(Some(<< "hi" >>)) >>,
      << TextBlock(Some(<< "a" >>)), ToolUseBlock("c1", "get_person_details", None),
         TextBlock(None), TextBlock(Some(<< "b" >>)) >>,
      << ToolUseBlock("c2", "list_folk_groups", Some("{}")),
         [ TextBlock(Some(<< "t" >>)) EXCEPT !.type = "thinking" ],
         ToolUseBlock("c1", "get_person_details", Some("{\"name\":\"x\"}")),
         ToolUseBlock("c3", "get_person_details", None) >> }

AnthropicBodies ==
    { [ content |-> content, stop_reason |-> reason ] :
        content \in AnthropicContents,
        reason \in { "end_turn", "tool_use", "max_tokens", "stop_sequence" } }

\* One entry of fetchLog: the body a backend answered with and the response
\* the backend function returned for it
Parsed(provider, data, reply) ==
    [ backend |-> provider, data |-> data, reply |-> reply ]

\* callTogether, lines 97-119, on a success status
TogetherReply ==
    /\ Len(fetchLog) < MaxReplies
    /\ \E choice \in TogetherChoices :
          /\ response' = Some(TogetherResponse(choice))
          /\ fetchLog' = Append(fetchLog,
                 Parsed("together", choice, TogetherResponse(choice)))
    /\ UNCHANGED << env, tasks, cache,
                    httpLog, userAgents, sessions, now, pc, request,
                    config, agentType, routingStrategy, primaryAgent,
                    sessionId, historyMessages, messages,
                    newMessagesStartIndex, toolsUsed, i, batch, k, result,
                    callLog, execLog, saveLog, toolRegistry, resolveLog >>

\* callAnthropic, lines 195-223, on a success status
AnthropicReply ==
    /\ Len(fetchLog) < MaxReplies
    /\ \E data \in AnthropicBodies :
          /\ response' = Some(AnthropicResponse(data))
          /\ fetchLog' = Append(fetchLog,
                 Parsed("anthropic", data, AnthropicResponse(data)))
    /\ UNCHANGED << env, tasks, cache,
                    httpLog, userAgents, sessions, now, pc, request,
                    config, agentType, routingStrategy, primaryAgent,
                    sessionId, historyMessages, messages,
                    newMessagesStartIndex, toolsUsed, i, batch, k, result,
                    callLog, execLog, saveLog, toolRegistry, resolveLog >>

InitBackend == InitWith({ AllKeys }, { LoopAgents }, { SessionsAfter(0) })

NextBackend == TogetherReply \/ AnthropicReply

SpecBackend == InitBackend /\ [][NextBackend]_vars

-----------------------------------------------------------------------------
(* The CRM client: folk-crm.ts.  One action is one call of                 *)
(* folkFetchMultiKey; what the CRM answers to each key is the action's     *)
(* input.                                                                  *)

\* getFolkApiKeys: the keys that are set, FOLK_API_KEY_1 first
ReversedKeysMutant(e) ==
    (IF e.FOLK_API_KEY_2 # "" THEN << e.FOLK_API_KEY_2 >> ELSE << >>)
    \o (IF e.FOLK_API_KEY_1 # "" THEN << e.FOLK_API_KEY_1 >> ELSE << >>)

getFolkApiKeys(e) ==
    (IF e.FOLK_API_KEY_1 # "" THEN << e.FOLK_API_KEY_1 >> ELSE << >>)
    \o (IF e.FOLK_API_KEY_2 # "" THEN << e.FOLK_API_KEY_2 >> ELSE << >>)

FolkGave(value) == [ ok |-> TRUE, value |-> value ]

FolkThrew(error) == [ ok |-> FALSE, value |-> error ]

\* What the CRM can answer to one request: a status, or no answer at all
FolkAnswers == { "200", "401", "500", "network" }

\* folkFetch: one request with one key
folkFetch(path, apiKey, answer) ==
    IF answer = "network" THEN FolkThrew(<< "fetch failed" >>)
    ELSE IF answer # "200" THEN FolkThrew(<< "Folk API", answer >>)
    ELSE FolkGave(<< "json", path, apiKey >>)

\* One request that was sent
FolkAttempt(path, apiKey, answer) ==
    [ path |-> path, key |-> apiKey, answer |-> answer ]

\* The for loop of folkFetchMultiKey from key number n on
RECURSIVE TryKeys(_, _, _, _, _, _)
TryKeys(keys, path, answers, n, lastError, attempts) ==
    IF n > Len(keys)
    THEN [ attempts |-> attempts,
           outcome |-> FolkThrew(IF IsSome(lastError) THEN Get(lastError)
                                 ELSE << "Folk API request failed" >>) ]
    ELSE LET r == folkFetch(path, keys[n], answers[keys[n]])
             sent == Append(attempts,
                            FolkAttempt(path, keys[n], answers[keys[n]]))
         IN  IF r.ok
             THEN [ attempts |-> sent, outcome |-> r ]
             ELSE TryKeys(keys, path, answers, n + 1, Some(r.value), sent)

folkFetchMultiKey(e, path, answers) ==
    LET keys == getFolkApiKeys(e)
    IN  IF Len(keys) = 0
        THEN [ attempts |-> << >>,
               outcome |-> FolkThrew(<< "No FOLK_API_KEY configured" >>) ]
        ELSE TryKeys(keys, path, answers, 1, None, << >>)

-----------------------------------------------------------------------------
(* SpecFolk: calls of the CRM client with zero, one or two keys set        *)

MaxFetches == 2

FolkKeys == { "k1", "k2" }

FolkPaths == { "/people", "/groups" }

FolkEnvs ==
    { [ AllKeys EXCEPT !.FOLK_API_KEY_1 = k1, !.FOLK_API_KEY_2 = k2 ] :
        k1 \in { "", "k1" }, k2 \in { "", "k2" } }

\* One entry of fetchLog: a call of folkFetchMultiKey, what the CRM would
\* answer to each key, the requests sent and what the call gave
FolkCall(path, answers, done) ==
    [ backend |-> "folk", path |-> path, answers |-> answers,
      attempts |-> done.attempts, outcome |-> done.outcome ]

FolkFetch ==
    /\ Len(fetchLog) < MaxFetches
    /\ \E path \in FolkPaths, answers \in [ FolkKeys -> FolkAnswers ] :
          fetchLog' = Append(fetchLog,
              FolkCall(path, answers, folkFetchMultiKey(env, path, answers)))
    /\ UNCHANGED << env, tasks, cache,
                    httpLog, userAgents, sessions, now, pc, request,
                    config, agentType, routingStrategy, primaryAgent,
                    sessionId, historyMessages, messages,
                    newMessagesStartIndex, toolsUsed, i, batch, k, response,
                    result, callLog, execLog, saveLog, toolRegistry,
                    resolveLog >>

InitFolk == InitWith(FolkEnvs, { LoopAgents }, { SessionsAfter(0) })

NextFolk == FolkFetch

SpecFolk == InitFolk /\ [][NextFolk]_vars

-----------------------------------------------------------------------------
(* The cached graph tools: graph-tools.ts over redis.ts.  The cache is a   *)
(* set of entries, one per key; only toCache writes it.  Whether the cache *)
(* answers a read or a write, and what the graph store answers, are the    *)
(* action's inputs.                                                        *)

\* name.toLowerCase().replace(/ /g, "_") behind the prefix of the tool; a
\* name is the sequence of its words and spaces
PersonCacheKey(name) ==
    << "person_details:" >>
    \o [ j \in 1..Len(name) |->
           IF toLowerCase(name[j]) = " " THEN "_" ELSE toLowerCase(name[j]) ]

\* redis.get: the text held for the key, or null
cacheGet(c, key) ==
    IF \E entry \in c : entry.key = key
    THEN Some((CHOOSE entry \in c : entry.key = key).value)
    ELSE None

\* redis.set with an expiry: the entry of the key is replaced
cacheSet(c, key, value, ttlSeconds) ==
    { entry \in c : entry.key # key }
    \cup { [ key |-> key, value |-> value, ttl |-> ttlSeconds ] }

\* fromCache: the parsed value, or null on a miss or when the read throws
IgnoreCacheMutant(c, key, getThrows) == None

fromCache(c, key, getThrows) ==
    IF getThrows THEN None
    ELSE IF IsSome(cacheGet(c, key))
         THEN Some(JSONparse(Get(cacheGet(c, key))))
         ELSE None

\* toCache: the cache after the write, unchanged when the write throws
toCache(c, key, value, ttl, setThrows) ==
    IF setThrows THEN c ELSE cacheSet(c, key, JSONstringify(value), ttl)

jsonResult(payload) == [ details |-> payload ]

\* What executeRead can give: a thrown error, no record, or one record
GraphAnswers == { "throws", "none", "record" }

PersonFound(name) ==
    [ person |-> << "person", name >>, query |-> name, found |-> TRUE,
      error |-> None ]

PersonNotFound(name) ==
    [ person |-> None, query |-> name, found |-> FALSE,
      error |-> Some("Person not found in knowledge graph") ]

PersonQueryFailed(name) ==
    [ person |-> None, query |-> name, found |-> FALSE,
      error |-> Some("Query failed") ]

\* getPersonDetails.execute: what it returns, whether it queried the graph
\* store, and the cache it leaves
getPersonDetails(c, name, getThrows, setThrows, graph) ==
    LET cacheKey == PersonCacheKey(name)
        cached == fromCache(c, cacheKey, getThrows)
    IN  IF IsSome(cached)
        THEN [ result |-> jsonResult(Get(cached)), queried |-> FALSE,
               cache |-> c ]
        ELSE IF graph = "throws"
        THEN [ result |-> jsonResult(PersonQueryFailed(name)),
               queried |-> TRUE, cache |-> c ]
        ELSE IF graph = "record"
        THEN [ result |-> jsonResult(PersonFound(name)), queried |-> TRUE,
               cache |-> toCache(c, cacheKey, PersonFound(name), 300,
                                 setThrows) ]
        ELSE [ result |-> jsonResult(PersonNotFound(name)),
               queried |-> TRUE, cache |-> c ]

-----------------------------------------------------------------------------
(* SpecCache: calls of get_person_details against a cache that may fail    *)
(* and whose entries expire                                                *)

MaxLookups == 2

\* Two spellings that share a cache key, and another person
PersonNames ==
    { << "Ann", " ", "lee" >>, << "ann", "_", "lee" >>, << "Bob" >> }

\* One entry of execLog: the call, what the cache held for its key, what
\* the cache and the graph store answered, and what the call did
Lookup(name, held, getThrows, setThrows, graph, done) ==
    [ name |-> name, held |-> held, getThrows |-> getThrows,
      setThrows |-> setThrows, graph |-> graph, queried |-> done.queried,
      result |-> done.result ]

GetPersonDetails ==
    /\ Len(execLog) < MaxLookups
    /\ \E name \in PersonNames, getThrows \in BOOLEAN, setThrows \in BOOLEAN,
          graph \in GraphAnswers :
          LET done == getPersonDetails(cache, name, getThrows, setThrows,
                                       graph)
          IN  /\ cache' = done.cache
              /\ execLog' = Append(execLog,
                     Lookup(name, cacheGet(cache, PersonCacheKey(name)),
                            getThrows, setThrows, graph, done))
    /\ UNCHANGED << env, tasks, httpLog, userAgents, sessions, now, pc, request,
                    config, agentType, routingStrategy, primaryAgent,
                    sessionId, historyMessages, messages,
                    newMessagesStartIndex, toolsUsed, i, batch, k, response,
                    result, callLog, fetchLog, saveLog, toolRegistry,
                    resolveLog >>

\* The expiry set by redis.set removes an entry
Expire ==
    /\ \E entry \in cache : cache' = cache \ { entry }
    /\ UNCHANGED << env, tasks, httpLog, userAgents, sessions, now, pc, request,
                    config, agentType, routingStrategy, primaryAgent,
                    sessionId, historyMessages, messages,
                    newMessagesStartIndex, toolsUsed, i, batch, k, response,
                    result, callLog, fetchLog, execLog, saveLog,
                    toolRegistry, resolveLog >>

InitCache == InitWith({ AllKeys }, { LoopAgents }, { SessionsAfter(0) })

NextCache == GetPersonDetails \/ Expire

SpecCache == InitCache /\ [][NextCache]_vars

-----------------------------------------------------------------------------
(* SpecTools: the loop when the model asks for tools that are in the       *)
(* process-wide registry but not in the configuration of the request       *)

ToolsResponses ==
    { ChatResponse(<< "final" >>, "stop", << >>),
      ChatResponse(<< >>, "tool_calls",
                   << ToolCall("c1", "list_folk_groups"),
                      ToolCall("c2", "get_person_details"),
                      ToolCall("c3", "analyze_hub_node_status"),
                      ToolCall("c4", "no_such_tool") >>) }

InitTools == InitWith({ AllKeys }, { LoopAgents }, { SessionsAfter(1) })

NextTools ==
    \/ \E req \in LoopRequests : runQuery(req)
    \/ ModelCall(ToolsResponses)
    \/ ExecTool(LoopOutcomes)
    \/ Exhausted

SpecTools == InitTools /\ [][NextTools]_vars

-----------------------------------------------------------------------------
(* SpecOwner: updates and deletes by two users of their own agent, of the  *)
(* other user's agent and of an agent that does not exist                  *)

OwnerAgents ==
    ("a1" :> UserAgentRow("a1", "u1", "custom", Some("mine"),
                          Some(<< "get_person_details" >>),
                          << "together", "/", "llama" >>, TRUE))
    @@ ("a2" :> UserAgentRow("a2", "u2", "sales", Some("theirs"),
                             Some(<< "list_folk_groups" >>),
                             << "anthropic", "/", "claude-sonnet-4-6" >>, TRUE))

OwnerUpdates ==
    { HttpRequest(Some("secret"), Some(user), id,
                  Some("system_prompt" :> Some("edited"))) :
        user \in { "u1", "u2" }, id \in { "a1", "a2", "a3" } }

OwnerDeletes ==
    { HttpRequest(Some("secret"), Some(user), id, None) :
        user \in { "u1", "u2" }, id \in { "a1", "a2", "a3" } }

InitOwner == InitWith({ AllKeys }, { OwnerAgents }, { SessionsAfter(0) })

NextOwner ==
    \/ UpdateAgentRoute(OwnerUpdates)
    \/ DeleteAgentRoute(OwnerDeletes)

SpecOwner == InitOwner /\ [][NextOwner]_vars

-----------------------------------------------------------------------------
(* SpecConcurrent: several runQuery invocations for the same (user, agent, *)
(* conversation) triple in flight at once.  Each await on the session      *)
(* store is a step of its own: the select and the update or insert of      *)
(* getOrCreateSession, and the update of the save; the loop between the    *)
(* load and the save touches no shared state and is one step.              *)

MaxTasks == 2

TurnWords == << "first", "second", "third", "fourth" >>

\* What invocation number p asks and what the model answers it
TurnOf(p) ==
    << UserMsg(<< "question", TurnWords[p] >>),
       AssistantMsg(<< "answer", TurnWords[p] >>) >>

\* The locals of an invocation that has just been called
NewTask(p) ==
    [ pc |-> "select", turn |-> p, existing |-> None, sessionId |-> None,
      historyMessages |-> << >>, newMessages |-> << >>, refused |-> FALSE,
      loadedAfter |-> 0, savedAs |-> 0, saved |-> FALSE ]

\* Everything but the tasks, the agent_sessions table, the clock and saveLog
TaskFrame ==
    << env, cache, httpLog, userAgents, pc, request, config, agentType,
       routingStrategy, primaryAgent, sessionId, historyMessages, messages,
       newMessagesStartIndex, toolsUsed, i, batch, k, response, result,
       callLog, fetchLog, execLog, toolRegistry, resolveLog >>

\* runQuery is called for the triple (u1, a1, c1)
StartTask ==
    /\ Len(tasks) < MaxTasks
    /\ tasks' = Append(tasks, NewTask(Len(tasks) + 1))
    /\ UNCHANGED << sessions, now, saveLog, TaskFrame >>

\* getOrCreateSession, lines 178-184: the select; its error is not read, so
\* no row and several rows both leave existing null
SelectSession(p) ==
    /\ tasks[p].pc = "select"
    /\ LET single == SingleSession(sessions, "u1", "a1", "c1")
       IN  tasks' = [ tasks EXCEPT
               ![p].existing = IF IsSome(single)
                               THEN Some(sessions[Get(single)]) ELSE None,
               ![p].loadedAfter = Len(saveLog),
               ![p].pc = IF IsSome(single) THEN "touch" ELSE "insert" ]
    /\ UNCHANGED << sessions, now, saveLog, TaskFrame >>

\* lines 186-193 and loadSessionMessages: last_active is updated and the row
\* that the select returned is the session, its messages the history
TouchSession(p) ==
    /\ tasks[p].pc = "touch"
    /\ sessions' = [ j \in 1..Len(sessions) |->
                       IF sessions[j].id = Get(tasks[p].existing).id
                       THEN [ sessions[j] EXCEPT !.last_active = now ]
                       ELSE sessions[j] ]
    /\ tasks' = [ tasks EXCEPT
           ![p].sessionId = Some(Get(tasks[p].existing).id),
           ![p].historyMessages = SessionMessagesOf(Get(tasks[p].existing)),
           ![p].pc = "loop" ]
    /\ UNCHANGED << now, saveLog, TaskFrame >>

\* lines 195-203: the insert.  It stores a new row; when a row of the triple
\* has appeared since the select, the store may instead refuse it (a
\* uniqueness rule on the table, which the code does not show), and then
\* getOrCreateSession throws and runQuery goes on without a session.
InsertSession(p) ==
    /\ tasks[p].pc = "insert"
    /\ \/ /\ sessions' = Append(sessions,
                 SessionRow(Len(sessions) + 1, "u1", "a1", "c1", None, now))
          /\ tasks' = [ tasks EXCEPT
                 ![p].sessionId = Some(Len(sessions) + 1),
                 ![p].historyMessages = << >>,
                 ![p].pc = "loop" ]
       \/ /\ MatchingSessions(sessions, "u1", "a1", "c1") # { }
          /\ sessions' = sessions
          /\ tasks' = [ tasks EXCEPT ![p].refused = TRUE, ![p].pc = "loop" ]
    /\ UNCHANGED << now, saveLog, TaskFrame >>

\* orchestrator.ts lines 82-107: the loop ends with a final answer
RunLoop(p) ==
    /\ tasks[p].pc = "loop"
    /\ tasks' = [ tasks EXCEPT
           ![p].newMessages = TurnOf(tasks[p].turn),
           ![p].pc = IF IsSome(tasks[p].sessionId) THEN "save" ELSE "returned" ]
    /\ UNCHANGED << sessions, now, saveLog, TaskFrame >>

\* lines 108-116: saveSessionMessages(sessionId, historyMessages,
\* newMessages), whose failure is swallowed, and the return
SaveTask(p) ==
    /\ tasks[p].pc = "save"
    /\ \E ok \in BOOLEAN :
          /\ saveLog' = Append(saveLog,
                 [ sessionId |-> Get(tasks[p].sessionId),
                   existing |-> tasks[p].historyMessages,
                   new |-> tasks[p].newMessages, ok |-> ok, at |-> now ])
          /\ sessions' = IF ok
                         THEN updateSessionState(sessions,
                                  Get(tasks[p].sessionId),
                                  Some(saveSessionMessages(
                                           tasks[p].historyMessages,
                                           tasks[p].newMessages, now)),
                                  now)
                         ELSE sessions
          /\ tasks' = [ tasks EXCEPT ![p].saved = ok,
                                     ![p].savedAs = Len(saveLog) + 1,
                                     ![p].pc = "returned" ]
    /\ now' = now + 1
    /\ UNCHANGED TaskFrame

InitConcurrent ==
    InitWith({ AllKeys }, { LoopAgents }, { SessionsAfter(0), SessionsAfter(1) })

NextConcurrent ==
    \/ StartTask
    \/ \E p \in 1..Len(tasks) : SelectSession(p)
    \/ \E p \in 1..Len(tasks) : TouchSession(p)
    \/ \E p \in 1..Len(tasks) : InsertSession(p)
    \/ \E p \in 1..Len(tasks) : RunLoop(p)
    \/ \E p \in 1..Len(tasks) : SaveTask(p)

SpecConcurrent == InitConcurrent /\ [][NextConcurrent]_vars

-----------------------------------------------------------------------------
(* SpecHistory: successive requests on one conversation of a stored agent, *)
(* some of which use tools, so that the window of 20 cuts into the         *)
(* messages of an earlier request                                          *)

HistoryQueries ==
    { HttpRequest(Some("secret"), Some("u1"), "",
          Some([ message |-> << "Budget", "rate" >>, conversation_id |-> "c1",
                 agent_id |-> Some("a1"), agent_type |-> None ])) }

HistoryResponses ==
    { ChatResponse(<< "final" >>, "stop", << >>),
      ChatResponse(<< >>, "tool_calls",
                   << ToolCall("c1", "get_person_details"),
                      ToolCall("c2", "broad_vector_search"),
                      ToolCall("c3", "get_person_details") >>) }

HistoryOutcomes == { ToolResult(<< [ type |-> "text", text |-> << "r1" >> ] >>) }

InitHistory == InitWith({ AllKeys }, { LoopAgents }, { SessionsAfter(0) })

NextHistory ==
    \/ QueryRoute(HistoryQueries)
    \/ ModelCall(HistoryResponses)
    \/ ExecTool(HistoryOutcomes)
    \/ Exhausted
    \/ Respond

SpecHistory == InitHistory /\ [][NextHistory]_vars


-----------------------------------------------------------------------------
(* SpecLive: the requests of SpecTools under the assumption that every     *)
(* awaited call settles: a pending chatCompletion returns or throws, a     *)
(* pending tool.execute returns or throws, and the save after the loop     *)
(* returns or throws (the save of the final answer is part of ModelCall)   *)

Settles ==
    /\ WF_vars(ModelCall(ToolsResponses))
    /\ WF_vars(ExecTool(LoopOutcomes))
    /\ WF_vars(Exhausted)

SpecLive == InitTools /\ [][NextTools]_vars /\ Settles

-----------------------------------------------------------------------------
(* Properties.  They read the logs of what went over the wire (callLog,    *)
(* fetchLog, execLog, saveLog) and the program's results.                  *)

Level == request.user_context.data_sensitivity

LastCall == callLog[Len(callLog)]

\* The reply of the latest HTTP exchange (defined when it was a success)
LastReply == Get(fetchLog[Len(fetchLog)].reply)

\* A tool phase is running or has just been completed
InToolPhase ==
    /\ pc \in { "ToolPhase", "Loop", "Exhausted" }
    /\ Len(callLog) > 0

\* Position, in messages, of the assistant message of the latest tool phase:
\* the message after those that were sent with the latest model call
PhaseBase == LastCall.nMessages + 1

\* Number of tool-role messages appended so far in the latest tool phase
PhaseDone == Len(messages) - PhaseBase

\* The executions of the call at position j of the latest tool phase
ExecsAt(j) ==
    { n \in 1..Len(execLog) : /\ execLog[n].iteration = Len(callLog) - 1
                              /\ execLog[n].position = j }

RequestedTools(exchange) ==
    IsSome(exchange.reply) /\ Len(Get(exchange.reply).toolCalls) > 0

\* C1: a request never issues more than 5 chatCompletion calls (nor more than
\* 5 HTTP requests), whatever the provider answers; when every response asked
\* for tools the request ends Exhausted after exactly 5 calls.
C1_AtMostFiveModelCalls ==
    /\ Len(callLog) <= 5
    /\ Len(fetchLog) <= 5
    /\ pc = "Exhausted" =>
          /\ Len(callLog) = 5
          /\ IsSome(result) /\ Get(result).kind = "response"

C1_Witness ==
    /\ pc = "Exhausted"
    /\ Len(fetchLog) = 5
    /\ \A j \in 1..5 : RequestedTools(fetchLog[j])

\* C2: every chatCompletion call of a request of level 1..4 goes to Together
\* and of level 5..6 to Anthropic; a call sends at most one HTTP request, to
\* that backend, and exactly one when the backend's key is configured.
C2_BackendByLevel ==
    /\ \A j \in 1..Len(callLog) :
          /\ Get(callLog[j].dataSensitivity) \in 1..4
                => callLog[j].provider = "together"
          /\ Get(callLog[j].dataSensitivity) \in 5..6
                => callLog[j].provider = "anthropic"
    /\ Len(fetchLog) <= Len(callLog)
    /\ \A j \in 1..Len(fetchLog) :
          /\ fetchLog[j].backend = callLog[j].provider
          /\ fetchLog[j].nMessages = callLog[j].nMessages
    /\ \A j \in 1..Len(callLog) :
          j > Len(fetchLog) =>
             /\ j = Len(callLog)
             /\ pc = "Thrown"
             /\ ~ ApiKeyConfigured(env, callLog[j].provider)

C2_Witness ==
    /\ pc = "Exhausted"
    /\ Level = 5
    /\ Len(fetchLog) = 5
    /\ \A j \in 1..5 : fetchLog[j].backend = "anthropic"

\* The provider chatCompletion picks for a sensitivity and a model override
ProviderFor(sensitivity, model) ==
    chatCompletionProvider([ dataSensitivity |-> sensitivity, model |-> model ])

\* C3: the backend of a model call depends on the sensitivity level only: the
\* same call with any other model override, stripped of its prefix or not,
\* goes to the backend that was called, and a call of level 5 or 6 is never
\* sent to Together.
C3_BackendIndependentOfModel ==
    /\ \A j \in 1..Len(callLog) :
          \A pref \in ModelPreferences :
             /\ ProviderFor(callLog[j].dataSensitivity, stripModelPrefix(pref))
                   = callLog[j].provider
             /\ ProviderFor(callLog[j].dataSensitivity, Some(pref))
                   = callLog[j].provider
             /\ ProviderFor(callLog[j].dataSensitivity, None)
                   = callLog[j].provider
    /\ \A j \in 1..Len(fetchLog) :
          Get(callLog[j].dataSensitivity) >= 5 => fetchLog[j].backend # "together"

C3_Witness ==
    /\ Len(fetchLog) > 0
    /\ Level = 6
    /\ IsSome(request.agent_id)
    /\ routingStrategy = "user_agent"
    /\ userAgents["a1"].model_preference = << "together", "/", "llama" >>
    /\ fetchLog[1].backend = "anthropic"
    /\ fetchLog[1].model = << "llama" >>

C5_ToolMessagesInCallOrder ==
    InToolPhase =>
       /\ messages[PhaseBase].role = "assistant"
       /\ IsSome(messages[PhaseBase].tool_calls)
       /\ Len(Get(messages[PhaseBase].tool_calls)) = Len(LastReply.toolCalls)
       /\ \A j \in 1..Len(LastReply.toolCalls) :
             /\ Get(messages[PhaseBase].tool_calls)[j].id
                   = LastReply.toolCalls[j].id
             /\ Get(messages[PhaseBase].tool_calls)[j].function.name
                   = LastReply.toolCalls[j].name
       /\ PhaseDone <= Len(LastReply.toolCalls)
       /\ \A j \in 1..PhaseDone :
             /\ messages[PhaseBase + j].role = "tool"
             /\ messages[PhaseBase + j].tool_call_id
                   = Some(LastReply.toolCalls[j].id)
       /\ pc # "ToolPhase" => PhaseDone = Len(LastReply.toolCalls)

C5_Witness ==
    /\ pc = "Loop"
    /\ Len(callLog) > 0
    /\ PhaseDone = 3
    /\ messages[PhaseBase + 1].tool_call_id = Some("c1")
    /\ messages[PhaseBase + 2].tool_call_id = Some("c2")
    /\ messages[PhaseBase + 3].tool_call_id = Some("c3")
    /\ messages[PhaseBase + 2].content =
          << "{\"error\":\"", "Unknown tool: ", "no_such_tool", "\"}" >>
    /\ \E n \in ExecsAt(1) : execLog[n].outcome.kind = "throw"

\* The reply of exchange j ends the request: normal stop, or no tool call
FinalReply(j) ==
    /\ IsSome(fetchLog[j].reply)
    /\ \/ Get(fetchLog[j].reply).stopReason = "stop"
       \/ Len(Get(fetchLog[j].reply).toolCalls) = 0

\* Nothing follows the final reply of exchange j: it is the last exchange and
\* the last call, no message was appended after those sent with it, and no
\* tool named in it was executed
NothingAfterFinal(j) ==
    /\ j = Len(fetchLog)
    /\ j = Len(callLog)
    /\ pc = "Done"
    /\ Len(messages) = fetchLog[j].nMessages
    /\ \A n \in 1..Len(execLog) : execLog[n].iteration < j - 1
    /\ IsSome(result) /\ Get(result).kind = "response"

\* C6 as stated: the request ends at the first final reply and the returned
\* content is that reply's text.
C6_ContentIsResponseText ==
    /\ pc = "Done" => (Len(fetchLog) > 0 /\ FinalReply(Len(fetchLog)))
    /\ \A j \in 1..Len(fetchLog) :
          FinalReply(j) =>
             /\ NothingAfterFinal(j)
             /\ Get(result).content = Get(fetchLog[j].reply).text

\* C6, amended: the request ends at the first reply whose stop reason is
\* "stop" or that carries no tool call; no tool of that reply is executed, no
\* further model call is made, and the returned content is that reply's text
\* when it is not empty and "[No response generated]" when it is.
C6_EndsAtFirstFinalReply ==
    /\ pc = "Done" => (Len(fetchLog) > 0 /\ FinalReply(Len(fetchLog)))
    /\ \A j \in 1..Len(fetchLog) :
          FinalReply(j) =>
             /\ NothingAfterFinal(j)
             /\ Get(result).content =
                   IF Get(fetchLog[j].reply).text = << >>
                   THEN << "[No response generated]" >>
                   ELSE Get(fetchLog[j].reply).text

C6_Witness ==
    /\ pc = "Done"
    /\ Len(fetchLog) = 3
    /\ LastReply.stopReason = "stop"
    /\ Len(LastReply.toolCalls) > 0
    /\ LastReply.text = << >>
    /\ Get(result).content = << "[No response generated]" >>

\* Position of the last assistant message of the list
LastAssistantIndex(msgs) ==
    CHOOSE j \in 1..Len(msgs) :
        /\ msgs[j].role = "assistant"
        /\ \A n \in (j + 1)..Len(msgs) : msgs[n].role # "assistant"

\* C7: at the iteration bound runQuery returns a response (it does not
\* throw, whether or not the session save succeeded) whose content is the
\* text of the last assistant message when that text is not empty, and the
\* max-iterations placeholder otherwise.
C7_ExhaustedContent ==
    pc = "Exhausted" =>
       /\ IsSome(result)
       /\ Get(result).kind = "response"
       /\ Get(result).content =
             IF messages[LastAssistantIndex(messages)].content # << >>
             THEN messages[LastAssistantIndex(messages)].content
             ELSE << "[Max iterations reached - partial results may be available from tool calls]" >>
       /\ messages[LastAssistantIndex(messages)].content = LastReply.text

C7_Witness ==
    /\ pc = "Exhausted"
    /\ Get(result).kind = "response"
    /\ LastReply.text = << >>
    /\ Get(fetchLog[1].reply).text = << "partial" >>
    /\ Get(result).content # << "partial" >>
    /\ Len(saveLog) = 1 /\ ~ saveLog[1].ok

IsSuccess(e) == e.outcome.kind = "result"

\* Names of the tools whose execution succeeded, in execution order
SucceededTools ==
    LET succeeded == SelectSeq(execLog, IsSuccess)
    IN  [ n \in 1..Len(succeeded) |-> succeeded[n].name ]

ClassifiedPath ==
    routingStrategy \in { "direct", "auto_classified", "fallback_classified" }

\* C8 as stated: agents_used is omitted on a classified path when no tool was
\* invoked, and always present on the user_agent path.
C8_AgentsUsedByPath ==
    (IsSome(result) /\ Get(result).kind = "response") =>
       /\ (ClassifiedPath /\ SucceededTools = << >>)
             => Get(result).agent_info.agents_used = None
       /\ routingStrategy = "user_agent"
             => IsSome(Get(result).agent_info.agents_used)

\* C8, amended: on every routing path alike, agents_used is omitted exactly
\* when the outcome is Done and no tool execution succeeded; it is the list
\* of the names of the successfully executed tools when one succeeded, and
\* at Exhausted it is always present, possibly empty.
C8_AgentsUsedByOutcome ==
    /\ pc = "Done" =>
          Get(result).agent_info.agents_used =
             IF SucceededTools = << >> THEN None ELSE Some(SucceededTools)
    /\ pc = "Exhausted" =>
          Get(result).agent_info.agents_used = Some(SucceededTools)

C8_Witness ==
    /\ pc = "Exhausted"
    /\ ClassifiedPath
    /\ Len(execLog) > 0
    /\ Get(result).agent_info.agents_used = Some(<< >>)

\* The stored window of the session with that id
StoredWindow(id) ==
    SessionMessagesOf(sessions[CHOOSE j \in 1..Len(sessions) : sessions[j].id = id])

LastSave == saveLog[Len(saveLog)]

\* C9: the window of every session holds at most 20 messages after any
\* sequence of loads, saves and clears.
C9_WindowAtMostTwenty ==
    \A j \in 1..Len(sessions) : Len(SessionMessagesOf(sessions[j])) <= 20

C9_Witness ==
    /\ pc = "Saved"
    /\ LastSave.ok
    /\ Len(LastSave.existing) = 20
    /\ Len(LastSave.new) = 21
    /\ Len(StoredWindow(LastSave.sessionId)) = 20

\* What a save of existing followed by new at time t has to store
ExpectedWindow(existing, new, t) ==
    LET all == existing \o new
        n == Len(all)
        m == IF n < 20 THEN n ELSE 20
    IN  [ j \in 1..m |->
            [ all[n - m + j] EXCEPT !.timestamp =
                IF IsSome(all[n - m + j].timestamp)
                THEN all[n - m + j].timestamp ELSE Some(t) ] ]

\* C10: a successful save stores exactly the last min(20, n) entries of prior
\* followed by new, in their order, each with a capture time: its own when it
\* had one, the time of the save otherwise.
C10_SaveStoresLastTwentyStamped ==
    (pc = "Saved" /\ LastSave.ok) =>
       /\ StoredWindow(LastSave.sessionId) =
             ExpectedWindow(LastSave.existing, LastSave.new, LastSave.at)
       /\ \A j \in 1..Len(StoredWindow(LastSave.sessionId)) :
             IsSome(StoredWindow(LastSave.sessionId)[j].timestamp)

C10_Witness ==
    /\ pc = "Saved"
    /\ LastSave.ok
    /\ Len(LastSave.existing) + Len(LastSave.new) = 25
    /\ Len(StoredWindow(LastSave.sessionId)) = 20
    /\ StoredWindow(LastSave.sessionId)[1].content = LastSave.existing[6].content
    /\ StoredWindow(LastSave.sessionId)[1].timestamp # Some(LastSave.at)
    /\ StoredWindow(LastSave.sessionId)[20].timestamp = Some(LastSave.at)

-----------------------------------------------------------------------------
(* Properties of the resolution and of the failure paths *)

\* The stored definition the request names
StoredAgent == userAgents[Get(request.agent_id)]

\* The latest resolution step was a session load that threw
LoadFailed ==
    /\ Len(resolveLog) > 0
    /\ resolveLog[Len(resolveLog)].op = "loadSessionMessages"
    /\ resolveLog[Len(resolveLog)].outcome = "throw"

\* runQuery is over without a model call having failed
Answered == pc \in { "Done", "Exhausted" }

\* C11: when the session load of a request on the agent-id path throws, the
\* request runs with the stored agent's configuration and the label
\* user_agent, its first model call receives the new user message only, no
\* save is attempted and the session table is untouched, and unless a model
\* call fails the request returns a response.
C11_LoadFailureProceedsWithoutHistory ==
    LoadFailed =>
       /\ routingStrategy = "user_agent"
       /\ agentType = StoredAgent.agent_type
       /\ config.type = StoredAgent.agent_type
       /\ config.systemPrompt =
             IF IsSome(StoredAgent.system_prompt)
             THEN Get(StoredAgent.system_prompt) ELSE "DEFAULT_CUSTOM_PROMPT"
       /\ Range(config.tools) \subseteq Range(Get(StoredAgent.tools_enabled))
       /\ sessionId = None
       /\ messages[1] = UserMsg(request.message)
       /\ \A j \in 1..Len(messages) : messages[j].timestamp = None
       /\ Len(callLog) > 0 => callLog[1].nMessages = 1
       /\ saveLog = << >>
       /\ sessions = SessionsAfter(1)
       /\ pc \in { "Loop", "ToolPhase", "Done", "Exhausted", "Thrown" }
       /\ Answered =>
             /\ Get(result).kind = "response"
             /\ Get(result).agent_info.routing_strategy = "user_agent"
       /\ pc = "Thrown" => fetchLog[Len(fetchLog)].reply = None

C11_Witness ==
    /\ LoadFailed
    /\ pc = "Done"
    /\ Len(callLog) = 2
    /\ callLog[1].nMessages = 1
    /\ Len(SessionMessagesOf(sessions[1])) = 2
    /\ Get(result).kind = "response"
    /\ IsSome(request.agent_type)

\* The response of a finished request, told from what went over the wire and
\* from the resolution alone: nothing in it depends on the session save
ResponseWhateverTheSave ==
    [ kind |-> "response",
      content |->
         IF pc = "Done"
         THEN IF LastReply.text = << >> THEN << "[No response generated]" >>
              ELSE LastReply.text
         ELSE IF messages[LastAssistantIndex(messages)].content # << >>
              THEN messages[LastAssistantIndex(messages)].content
              ELSE << "[Max iterations reached - partial results may be available from tool calls]" >>,
      agent_info |->
         [ type |-> agentType, primary_agent |-> primaryAgent,
           routing_strategy |-> routingStrategy,
           agents_used |->
              IF pc = "Done" /\ SucceededTools = << >> THEN None
              ELSE Some(SucceededTools) ],
      conversation_id |-> request.conversation_id ]

\* C12: a request that ends Done or Exhausted returns the same response
\* whether its session save succeeded, failed or was not attempted; a failed
\* save makes runQuery neither throw nor store anything.
C12_SaveFailureKeepsResponse ==
    Answered =>
       /\ result = Some(ResponseWhateverTheSave)
       /\ Len(saveLog) <= 1
       /\ (Len(saveLog) = 1 /\ ~ LastSave.ok) =>
             StoredWindow(LastSave.sessionId) = LastSave.existing

C12_Witness ==
    /\ pc = "Done"
    /\ Len(saveLog) = 1
    /\ ~ LastSave.ok
    /\ Len(LastSave.new) > 2
    /\ Get(result).kind = "response"
    /\ Get(result).content = << "final" >>

\* Model call j failed: its backend threw before or after the HTTP exchange
CallFailed(j) ==
    \/ j > Len(fetchLog)
    \/ fetchLog[j].reply = None

IsThrowStep(e) == e.outcome = "throw"

IsThrowOutcome(e) == e.outcome.kind = "throw"

\* C13: runQuery throws only when a chatCompletion call has failed, and then
\* it was the last call; whatever the agent lookup, the configuration build,
\* the session load, the session save and the tools did (unknown tool names
\* included), a request whose model calls all succeeded ends with a response.
C13_ThrowsOnlyOnModelCallFailure ==
    /\ pc = "Thrown" =>
          /\ Len(callLog) > 0
          /\ CallFailed(Len(callLog))
          /\ Get(result).kind = "thrown"
    /\ \A j \in 1..Len(callLog) :
          CallFailed(j) => (j = Len(callLog) /\ pc = "Thrown")
    /\ IsSome(result) =>
          Get(result).kind = IF pc = "Thrown" THEN "thrown" ELSE "response"
    /\ Answered <=> (IsSome(result) /\ Get(result).kind = "response")

C13_Witness ==
    /\ Answered
    /\ Get(result).kind = "response"
    /\ SelectSeq(resolveLog, IsThrowStep) # << >>
    /\ SelectSeq(execLog, IsThrowOutcome) # << >>
    /\ \E j \in 1..Len(messages) :
          messages[j].content =
             << "{\"error\":\"", "Unknown tool: ", "no_such_tool", "\"}" >>

\* C14: a model call whose backend answers with a non-success status is the
\* last thing the request does: no further HTTP request goes to that or to
\* the other backend, no further model call is made, nothing is saved, and
\* runQuery throws the backend's error.
C14_HttpFailureIsFinal ==
    \A j \in 1..Len(fetchLog) :
       /\ fetchLog[j].backend = IF Level >= 5 THEN "anthropic" ELSE "together"
       /\ fetchLog[j].reply = None =>
             /\ j = Len(fetchLog)
             /\ j = Len(callLog)
             /\ pc = "Thrown"
             /\ IsSome(result)
             /\ Get(result).kind = "thrown"
             /\ Get(result).content = << "HTTP status not ok" >>
             /\ Len(messages) = fetchLog[j].nMessages
             /\ saveLog = << >>

C14_Witness ==
    /\ pc = "Thrown"
    /\ Len(fetchLog) = 3
    /\ fetchLog[3].reply = None
    /\ fetchLog[3].backend = "anthropic"
    /\ IsSome(sessionId)
    /\ Get(result).kind = "thrown"

\* The request carries an agent id and an agent type, and the lookup of the
\* agent id returned a stored agent that is active
BothGivenAndActive ==
    /\ pc # "Idle"
    /\ Truthy(request.agent_id)
    /\ IsSome(request.agent_type)
    /\ Get(request.agent_id) \in DOMAIN userAgents
    /\ StoredAgent.is_active
    /\ \A j \in 1..Len(resolveLog) :
          resolveLog[j].op = "getUserAgent" => resolveLog[j].outcome # "throw"

LookupGaveNoActiveAgent ==
    /\ Len(resolveLog) > 0
    /\ resolveLog[1].op = "getUserAgent"
    /\ resolveLog[1].outcome \in { "throw", "null", "inactive" }

\* An agent_type counts as supplied when it is defined; for the empty string
\* either reading is accepted
SuppliedType == IsSome(request.agent_type) /\ Get(request.agent_type) # ""

AbsentType == request.agent_type = None

\* C16: after a lookup that threw, returned nothing or returned an inactive
\* agent the label is fallback_classified and the category is the supplied
\* agent_type, else the classifier's result; without an agent_id the label
\* is direct with the supplied agent_type as category, and auto_classified
\* with the classifier's result as category when none is supplied; the
\* resolution itself never fails the request.
C16_RoutingLabelByCase ==
    pc # "Idle" =>
       /\ LookupGaveNoActiveAgent =>
             /\ routingStrategy = "fallback_classified"
             /\ SuppliedType => agentType = Get(request.agent_type)
             /\ AbsentType => agentType = classifyQuery(request.message)
       /\ request.agent_id = None =>
             /\ SuppliedType =>
                   /\ routingStrategy = "direct"
                   /\ agentType = Get(request.agent_type)
             /\ AbsentType =>
                   /\ routingStrategy = "auto_classified"
                   /\ agentType = classifyQuery(request.message)
             /\ (~ SuppliedType /\ ~ AbsentType) =>
                   \/ /\ routingStrategy = "direct"
                      /\ agentType = Get(request.agent_type)
                   \/ /\ routingStrategy = "auto_classified"
                      /\ agentType = classifyQuery(request.message)
       /\ pc = "Loop" /\ i = 0 => result = None

SalesScore == Score(request.message, SALES_KEYWORDS)

TalentScore == Score(request.message, TALENT_KEYWORDS)

BiddingScore == Score(request.message, BIDDING_KEYWORDS)

\* C17: classifyQuery returns bidding exactly when the bidding score is
\* strictly above both other scores, otherwise talent exactly when the talent
\* score is strictly above the sales score, otherwise sales; "Budget rate"
\* is bidding, a message without any keyword is sales, and a bidding score
\* that ties the highest other score does not win.
C17_ClassifyByStrictMaximum ==
    pc = "Classified" =>
       /\ agentType = "bidding" <=>
             (BiddingScore > SalesScore /\ BiddingScore > TalentScore)
       /\ agentType = "talent" <=>
             /\ ~ (BiddingScore > SalesScore /\ BiddingScore > TalentScore)
             /\ TalentScore > SalesScore
       /\ agentType \in { "bidding", "talent", "sales" }
       /\ request.message = << "Budget", "rate" >> => agentType = "bidding"
       /\ (SalesScore = 0 /\ TalentScore = 0 /\ BiddingScore = 0)
             => agentType = "sales"
       /\ (BiddingScore = SalesScore \/ BiddingScore = TalentScore)
             => agentType # "bidding"

C17_Witness ==
    /\ pc = "Classified"
    /\ request.message = << "Crew", "line", "item" >>
    /\ BiddingScore = 1
    /\ TalentScore = 1
    /\ SalesScore = 0
    /\ agentType = "talent"

\* The names of the tools the process knows
Inventory ==
    Range(getAllGraphTools) \cup Range(getAllBidTools) \cup Range(getAllFolkTools)

\* names is what is left of all when the entries outside the inventory are
\* taken out, in the same order and with the same repetitions
RECURSIVE IsKnownPartOf(_, _)
IsKnownPartOf(names, all) ==
    IF all = << >> THEN names = << >>
    ELSE IF Head(all) \in Inventory
         THEN /\ names # << >>
              /\ Head(names) = Head(all)
              /\ IsKnownPartOf(Tail(names), Tail(all))
         ELSE IsKnownPartOf(names, Tail(all))

LastStep == resolveLog[Len(resolveLog)]

\* The latest step built a configuration from a definition that enables tools
BuiltWithTools ==
    /\ pc = "Built"
    /\ Len(Get(Get(LastStep.definition).tools_enabled)) > 0

\* C18: the tools resolved from a list of names are exactly the names of the
\* list that the registry knows, in the order of the list; an unknown name
\* is dropped without an error, and the registry holds the whole inventory
\* before and after.
C18_ResolveToolsKeepsOrderAndRegistry ==
    /\ BuiltWithTools =>
          /\ LastStep.outcome = "ok"
          /\ IsKnownPartOf(config.tools, Get(Get(LastStep.definition).tools_enabled))
    /\ IsSome(toolRegistry) =>
          /\ Range(Get(toolRegistry)) = Inventory
          /\ Len(Get(toolRegistry)) = 16

C18_Witness ==
    /\ BuiltWithTools
    /\ Len(resolveLog) = 3
    /\ Get(LastStep.definition).tools_enabled =
          Some(<< "get_person_details", "retired_tool", "list_folk_groups" >>)
    /\ config.tools = << "get_person_details", "list_folk_groups" >>
    /\ IsSome(toolRegistry)

\* The definition carries a system prompt (a non-empty string)
HasPrompt(row) == IsSome(row.system_prompt) /\ Get(row.system_prompt) # ""

EnablesTools(row) == Len(Get(row.tools_enabled)) > 0

IsBuild(j) == resolveLog[j].op = "buildAgentConfigFromUser"

\* C20: two builds of the same stored definition give the same
\* configuration (type, system prompt, ordered tools, model), whatever
\* builds of other definitions, listings of the tool names and edits
\* happened before or between them.
C20_SameDefinitionSameConfiguration ==
    \A j, n \in 1..Len(resolveLog) :
       (IsBuild(j) /\ IsBuild(n)
          /\ resolveLog[j].definition = resolveLog[n].definition)
       => resolveLog[j].config = resolveLog[n].config

C20_Witness ==
    /\ Len(resolveLog) = 3
    /\ IsBuild(1) /\ IsBuild(2) /\ IsBuild(3)
    /\ resolveLog[1].definition = resolveLog[3].definition
    /\ resolveLog[2].definition # resolveLog[1].definition
    /\ Get(resolveLog[1].definition).tools_enabled =
          Some(<< "retired_tool", "get_person_details", "get_person_details" >>)
    /\ Get(resolveLog[3].config).tools =
          << "get_person_details", "get_person_details" >>

-----------------------------------------------------------------------------
(* Properties of the service: edits, routes, credentials *)

IsEdit(j) == resolveLog[j].op \in { "updateUserAgent", "deactivateUserAgent" }

\* Position in resolveLog of the latest edit of agent id completed before
\* step n, 0 when there is none
LastEditBefore(id, n) ==
    LET edits == { j \in 1..(n - 1) :
                     IsEdit(j) /\ Get(resolveLog[j].definition).id = id }
    IN  IF edits = { } THEN 0
        ELSE CHOOSE j \in edits : \A m \in edits : m <= j

\* Position in resolveLog of the agent lookup of the request in flight
LookupInFlight ==
    CHOOSE n \in 1..Len(resolveLog) :
        /\ resolveLog[n].op = "getUserAgent"
        /\ \A m \in (n + 1)..Len(resolveLog) : resolveLog[m].op # "getUserAgent"

RowsOfTriple(tbl) ==
    { j \in 1..Len(tbl) : /\ tbl[j].user_id = "u1"
                          /\ tbl[j].agent_id = "a1"
                          /\ tbl[j].conversation_id = "c1" }

\* The step is a call of loadSessionMessages(u1, a1, c1)
IsLoadStep == pc' = "Loaded" /\ i' = i + 1

\* C22: a load on a triple without a session adds one session with an empty
\* history to the table and returns it with an empty message list; a load on
\* a triple with a session returns that session and its stored messages in
\* their stored order, sets its last-active time, adds no session, and
\* leaves every stored history as it was.
C22_LoadGetsOrCreates ==
    [][ IsLoadStep =>
          IF RowsOfTriple(sessions) = { }
          THEN /\ Len(sessions') = Len(sessions) + 1
               /\ SubSeq(sessions', 1, Len(sessions)) = sessions
               /\ RowsOfTriple(sessions') = { Len(sessions') }
               /\ sessions'[Len(sessions')].state = << >>
               /\ sessionId' = << sessions'[Len(sessions')].id >>
               /\ historyMessages' = << >>
          ELSE \E j \in RowsOfTriple(sessions) :
                  /\ RowsOfTriple(sessions) = { j }
                  /\ Len(sessions') = Len(sessions)
                  /\ sessionId' = << sessions[j].id >>
                  /\ historyMessages' =
                        IF sessions[j].state = << >> THEN << >>
                        ELSE sessions[j].state[1]
                  /\ sessions' = [ sessions EXCEPT ![j].last_active = now ]
      ]_vars

C22_Witness ==
    /\ pc = "Loaded"
    /\ Len(sessions) = 1
    /\ Len(saveLog) > 0
    /\ LastSave.ok
    /\ Len(historyMessages) = 20
    /\ historyMessages = Get(sessions[1].state)
    /\ historyMessages[20] = Stamp(LastSave.new[Len(LastSave.new)], LastSave.at)
    /\ sessions[1].last_active = now - 1
    /\ sessions[1].last_active > LastSave.at

\* The step is a call of clearSessionMessages(sessionId)
IsClearStep == pc' = "Cleared" /\ i' = i + 1

\* C23: a clear keeps every session, empties the history of the session it
\* was called for and changes no other session's row; the load that follows
\* a clear on the same triple returns the same session id, an empty message
\* list, and creates no session.
C23_ClearEmptiesOneSession ==
    [][ /\ IsClearStep =>
            /\ Len(sessions') = Len(sessions)
            /\ \A j \in 1..Len(sessions) :
                  IF sessions[j].id = sessionId[1]
                  THEN /\ sessions'[j].state = << << >> >>
                       /\ sessions'[j].id = sessions[j].id
                       /\ sessions'[j].user_id = sessions[j].user_id
                       /\ sessions'[j].agent_id = sessions[j].agent_id
                       /\ sessions'[j].conversation_id = sessions[j].conversation_id
                  ELSE sessions'[j] = sessions[j]
        /\ (pc = "Cleared" /\ IsLoadStep) =>
            /\ sessionId' = sessionId
            /\ historyMessages' = << >>
            /\ Len(sessions') = Len(sessions)
      ]_vars

C23_Witness ==
    /\ pc = "Loaded"
    /\ Len(sessions) = 3
    /\ sessionId = << 2 >>
    /\ sessions[2].state = << << >> >>
    /\ historyMessages = << >>
    /\ Len(saveLog) > 0
    /\ LastSave.ok
    /\ sessions[1].state = << PriorTurns(1) >>
    /\ sessions[3].state = << PriorTurns(2) >>

\* The canonical stop reason that means what the backend's finish signal
\* means: normal completion, a tool request, a length truncation, or none
\* of these
StopReasonByMeaning(backend, signal) ==
    IF backend = "together"
    THEN CASE signal = "stop" -> "stop"
           [] signal = "tool_calls" -> "tool_calls"
           [] signal = "length" -> "length"
           [] OTHER -> "unknown"
    ELSE CASE signal = "end_turn" -> "stop"
           [] signal = "tool_use" -> "tool_calls"
           [] signal = "max_tokens" -> "length"
           [] OTHER -> "unknown"

\* The (id, name) pairs of the tool invocations of a backend body, in order
InvocationsOf(e) ==
    IF e.backend = "together"
    THEN LET calls == IF e.data.message.tool_calls = << >> THEN << >>
                      ELSE e.data.message.tool_calls[1]
         IN  [ j \in 1..Len(calls) |-> << calls[j].id, calls[j].function.name >> ]
    ELSE LET uses == SelectSeq(e.data.content, IsToolUseBlock)
         IN  [ j \in 1..Len(uses) |-> << uses[j].id, uses[j].name >> ]

\* C24: both backends return the canonical stop reason that means what their
\* finish signal means (normal completion, tool request, length truncation,
\* unknown otherwise), and the tool calls of the response are the tool
\* invocations of the body, one for one, with their ids and names, in order.
C24_StopReasonAndToolCallsMapped ==
    \A j \in 1..Len(fetchLog) :
       /\ fetchLog[j].reply.stopReason =
             StopReasonByMeaning(fetchLog[j].backend,
                 IF fetchLog[j].backend = "together"
                 THEN fetchLog[j].data.finish_reason
                 ELSE fetchLog[j].data.stop_reason)
       /\ [ n \in 1..Len(fetchLog[j].reply.toolCalls) |->
              << fetchLog[j].reply.toolCalls[n].id,
                 fetchLog[j].reply.toolCalls[n].name >> ]
             = InvocationsOf(fetchLog[j])

\* The key of the backend the first model call was dispatched to is missing
ProviderKeyMissing ==
    /\ Len(callLog) > 0
    /\ IF callLog[1].provider = "anthropic"
       THEN ~ env.ANTHROPIC_API_KEY ELSE ~ env.TOGETHER_API_KEY

\* The request names an agent and the store's URL or key is missing
StoreCredentialsMissing ==
    /\ pc # "Idle"
    /\ request.agent_id # << >>
    /\ ~ (env.SUPABASE_URL /\ env.SUPABASE_KEY)

\* The first model call failed before any HTTP request, and ended the request
FailsAtFirstModelCall ==
    /\ Len(callLog) = 1
    /\ fetchLog = << >>
    /\ pc = "Thrown"
    /\ result = << Thrown("API key not configured") >>
    /\ saveLog = << >>

\* The agent lookup threw before the store was asked anything, once
LookupFailedOnce ==
    /\ resolveLog = << Resolved("getUserAgent", "throw", << >>, << >>) >>
    /\ sessionId = << >>
    /\ sessions = << >>
    /\ saveLog = << >>

\* C25 as stated: with the provider's key missing, and with the store's
\* credentials missing, the first operation that needs the backend throws
\* before the backend is contacted and the error ends the request.
C25_MissingCredentialsAreFatal ==
    /\ ProviderKeyMissing => FailsAtFirstModelCall
    /\ StoreCredentialsMissing =>
          /\ LookupFailedOnce
          /\ pc = "Thrown"
          /\ callLog = << >>

\* C25, amended: a missing provider key makes the first model call throw
\* before any HTTP request, and runQuery throws that error without a retry;
\* missing store credentials make the agent lookup throw before the store is
\* contacted and the lookup is not retried, but runQuery recovers from it:
\* the request goes on as fallback_classified without a session, and what it
\* returns or throws is decided by the model calls alone.
C25_StoreFailureRecoveredProviderFailureFatal ==
    /\ ProviderKeyMissing => FailsAtFirstModelCall
    /\ StoreCredentialsMissing =>
          /\ LookupFailedOnce
          /\ routingStrategy = "fallback_classified"
          /\ agentType = classifyQuery(request.message)
          /\ config = getAgentConfig(agentType)
          /\ pc \in { "Loop", "ToolPhase", "Done", "Exhausted", "Thrown" }
          /\ pc = "Thrown" =>
                Get(result).content \in { << "API key not configured" >>,
                                          << "HTTP status not ok" >> }
          /\ pc \in { "Done", "Exhausted" } => Get(result).kind = "response"

C25_Witness ==
    /\ StoreCredentialsMissing
    /\ ~ env.SUPABASE_URL
    /\ env.SUPABASE_KEY
    /\ env.TOGETHER_API_KEY
    /\ Level = 2
    /\ pc = "Done"
    /\ Len(fetchLog) = 2
    /\ Get(result).agent_info.routing_strategy = "fallback_classified"
    /\ Get(result).agent_info.agents_used = << << "get_person_details" >> >>

\* The request of entry e carries the configured service key
CarriesValidKey(e) ==
    /\ env.ONEVICE_SERVICE_KEY # ""
    /\ e.request.key = << env.ONEVICE_SERVICE_KEY >>

\* Entry e is a rejection before anything was read, run or stored
RejectedAtOnce(e) == e.status = 401 /\ e.did = { }

\* No request with the valid key has been handled: the stores and the
\* orchestrator are as they were when the service started
NothingTouched ==
    /\ pc = "Idle"
    /\ userAgents = LoopAgents
    /\ sessions = << >>
    /\ resolveLog = << >>
    /\ toolRegistry = << >>

\* C26 as stated: every route, the status route included, rejects a request
\* without the valid service key before it does anything else.
C26_EveryRouteChecksTheKey ==
    \A j \in 1..Len(httpLog) :
       ~ CarriesValidKey(httpLog[j]) => RejectedAtOnce(httpLog[j])

\* C26, amended: the query, agent-query, list, create, update and delete
\* routes answer 401 to a request without the valid service key before they
\* read the body, call the orchestrator or touch the agent store, and with
\* no key configured they reject every request; the status route checks no
\* key: it answers 200 to every request, and reads no body, runs no query
\* and touches no store.
C26_EveryRouteButStatusChecksTheKey ==
    /\ \A j \in 1..Len(httpLog) :
          IF httpLog[j].route = "status"
          THEN httpLog[j].status = 200 /\ httpLog[j].did = { }
          ELSE /\ ~ CarriesValidKey(httpLog[j]) => RejectedAtOnce(httpLog[j])
               /\ CarriesValidKey(httpLog[j]) => httpLog[j].status # 401
    /\ (\A j \in 1..Len(httpLog) :
           httpLog[j].route = "status" \/ ~ CarriesValidKey(httpLog[j]))
       => NothingTouched
    /\ env.ONEVICE_SERVICE_KEY = "" =>
          /\ NothingTouched
          /\ \A j \in 1..Len(httpLog) :
                httpLog[j].route # "status" => RejectedAtOnce(httpLog[j])

C26_Witness ==
    /\ Len(httpLog) = 3
    /\ httpLog[1].route = "delete"
    /\ httpLog[1].request.key = << "wrong!" >>
    /\ httpLog[1].status = 401
    /\ httpLog[2].route = "status"
    /\ httpLog[2].request.key = << >>
    /\ httpLog[2].status = 200
    /\ httpLog[3].route = "delete"
    /\ httpLog[3].status = 200
    /\ ~ userAgents["a1"].is_active

-----------------------------------------------------------------------------
(* Properties of the CRM client and of the cached graph tools              *)

\* The credentials that are configured, in their configured order
ConfiguredKeys ==
    SelectSeq(<< env.FOLK_API_KEY_1, env.FOLK_API_KEY_2 >>,
              LAMBDA key : key # "")

\* The CRM answers the key at place j of the configured keys with success
Succeeds(f, j) == f.answers[ConfiguredKeys[j]] = "200"

\* C27: the CRM fetch tries the configured credentials in their order, one
\* at a time, and stops at the first that succeeds: it succeeds exactly when
\* some credential succeeds, sends nothing after a success, throws the error
\* of the last credential tried when all fail, and throws a configuration
\* error without a request when no credential is configured.
C27_FirstSucceedingKeyWins ==
    \A n \in 1..Len(fetchLog) :
       LET f == fetchLog[n]
           sent == Len(f.attempts)
           winners == { j \in 1..Len(ConfiguredKeys) : Succeeds(f, j) }
       IN  /\ sent <= Len(ConfiguredKeys)
           /\ \A j \in 1..sent :
                 /\ f.attempts[j].key = ConfiguredKeys[j]
                 /\ f.attempts[j].path = f.path
                 /\ j < sent => ~ Succeeds(f, j)
           /\ f.outcome.ok <=> winners # { }
           /\ winners # { } =>
                 /\ sent \in winners
                 /\ \A j \in winners : sent <= j
                 /\ f.outcome.value = << "json", f.path, ConfiguredKeys[sent] >>
           /\ (winners = { } /\ Len(ConfiguredKeys) > 0) =>
                 /\ sent = Len(ConfiguredKeys)
                 /\ f.outcome.value =
                       IF f.answers[ConfiguredKeys[sent]] = "network"
                       THEN << "fetch failed" >>
                       ELSE << "Folk API", f.answers[ConfiguredKeys[sent]] >>
           /\ Len(ConfiguredKeys) = 0 =>
                 /\ sent = 0
                 /\ f.outcome.value = << "No FOLK_API_KEY configured" >>

\* The first key failed and the second succeeded; then both failed
C27_Witness ==
    /\ Len(fetchLog) = 2
    /\ Len(ConfiguredKeys) = 2
    /\ fetchLog[1].answers = [ k1 |-> "500", k2 |-> "200" ]
    /\ Len(fetchLog[1].attempts) = 2
    /\ fetchLog[1].outcome.ok
    /\ fetchLog[2].answers = [ k1 |-> "401", k2 |-> "network" ]
    /\ ~ fetchLog[2].outcome.ok
    /\ fetchLog[2].outcome.value = << "fetch failed" >>

\* The payload the graph store's answer makes for a call of the person tool
PayloadOfGraph(e) ==
    IF e.graph = "throws"
    THEN [ person |-> << >>, query |-> e.name, found |-> FALSE,
           error |-> << "Query failed" >> ]
    ELSE IF e.graph = "none"
    THEN [ person |-> << >>, query |-> e.name, found |-> FALSE,
           error |-> << "Person not found in knowledge graph" >> ]
    ELSE [ person |-> << "person", e.name >>, query |-> e.name,
           found |-> TRUE, error |-> << >> ]

\* C28: a cached graph tool is read-through and tolerant of the cache: when
\* the cache read throws or misses, the tool queries the graph store and
\* returns that result, whether or not the cache write throws; when the
\* cache holds a value for the key and the read gives it, the tool returns
\* that value without querying the graph store; a failure of the cache
\* never becomes a failure of the tool.
C28_CacheIsReadThroughAndTolerated ==
    \A n \in 1..Len(execLog) :
       LET e == execLog[n]
       IN  IF e.held # << >> /\ ~ e.getThrows
           THEN /\ ~ e.queried
                /\ e.result = [ details |-> e.held[1][2] ]
           ELSE /\ e.queried
                /\ e.result = [ details |-> PayloadOfGraph(e) ]
                /\ e.graph # "throws" => e.result.details.error # << "Query failed" >>

\* A miss fills the cache; the second spelling of the name hits
\* the entry and is answered from it while the graph store is failing
C28_Witness ==
    /\ Len(execLog) = 2
    /\ execLog[1].name = << "Ann", " ", "lee" >>
    /\ execLog[1].held = << >>
    /\ execLog[1].graph = "record"
    /\ ~ execLog[1].setThrows
    /\ execLog[2].name = << "ann", "_", "lee" >>
    /\ execLog[2].held # << >>
    /\ ~ execLog[2].getThrows
    /\ execLog[2].graph = "throws"
    /\ ~ execLog[2].queried
    /\ execLog[2].result.details.found

\* The cache fails on the read and on the write and the tool still answers
C28_WitnessCacheDown ==
    /\ Len(execLog) = 2
    /\ \A n \in 1..2 :
          /\ execLog[n].getThrows /\ execLog[n].setThrows
          /\ execLog[n].graph = "record"
          /\ execLog[n].queried
          /\ execLog[n].result.details.found
    /\ cache = { }

-----------------------------------------------------------------------------
(* Properties of the loop: sequencing of model calls, tools and the save   *)

\* The request is over: runQuery has returned or thrown
RequestOver == pc \in { "Done", "Exhausted", "Thrown" }

\* Place p of the message list holds a tool result of this request
IsToolResultAt(p) ==
    /\ p > newMessagesStartIndex
    /\ messages[p].role = "tool"

\* The message at place p was in the list handed to some model call
SentToModel(p) == \E n \in 1..Len(callLog) : callLog[n].nMessages >= p

\* Model call n + 1 was handed the list of call n, the assistant message
\* with the tool calls of reply n, and one tool-role message per call
BatchCompleteBefore(n) ==
    LET base == callLog[n].nMessages + 1
    IN  /\ Len(messages) > base
        /\ messages[base].role = "assistant"
        /\ messages[base].tool_calls # << >>
        /\ callLog[n + 1].nMessages
              = base + Len(messages[base].tool_calls[1])
        /\ \A j \in 1..Len(messages[base].tool_calls[1]) :
              /\ base + j <= Len(messages)
              /\ messages[base + j].role = "tool"
              /\ messages[base + j].tool_call_id
                    = << messages[base].tool_calls[1][j].id >>

\* Model calls and tool executions alternate, a whole batch between calls
StrictlySequential ==
    /\ Len(callLog) > 0 => callLog[1].nMessages = newMessagesStartIndex + 1
    /\ \A n \in 1..(Len(callLog) - 1) : BatchCompleteBefore(n)
    /\ pc = "ToolPhase" => Len(messages) >= callLog[Len(callLog)].nMessages + k

\* C29 as stated: model calls and tool executions are strictly sequential,
\* and every tool result appended in a tool phase is part of the message
\* list of a following model call of the same request.
C29_SequentialAndEveryResultConsumed ==
    /\ StrictlySequential
    /\ RequestOver =>
          \A p \in 1..Len(messages) : IsToolResultAt(p) => SentToModel(p)

\* C29, amended: model calls and tool executions are strictly sequential,
\* and every tool result appended in the tool phase of one of the first four
\* model calls is part of the message list of the next model call; the
\* results of the tool phase that follows the fifth model call are handed to
\* no model call: the request ends Exhausted with them in its message list.
C29_SequentialAndResultsConsumedBeforeTheBound ==
    /\ StrictlySequential
    /\ Len(callLog) <= 5
    /\ RequestOver =>
          \A p \in 1..Len(messages) :
             IsToolResultAt(p) =>
                (SentToModel(p) <=>
                    ~ (pc = "Exhausted" /\ p > callLog[5].nMessages))
    /\ pc = "Exhausted" =>
          /\ Len(callLog) = 5
          /\ Len(messages) > callLog[5].nMessages + 1
          /\ messages[Len(messages)].role = "tool"

\* Five model calls asked for tools; the three results of the last batch
\* were handed to no model call, the results before them were
C29_Witness ==
    /\ pc = "Exhausted"
    /\ Len(callLog) = 5
    /\ Len(messages) = callLog[5].nMessages + 4
    /\ IsToolResultAt(Len(messages)) /\ ~ SentToModel(Len(messages))
    /\ IsToolResultAt(callLog[5].nMessages)
    /\ SentToModel(callLog[5].nMessages)

\* What the save of a finished request has to be handed as new messages:
\* everything behind the loaded history, and on Done the final answer
ExpectedNewMessages ==
    SubSeq(messages, Len(historyMessages) + 1, Len(messages))
    \o (IF pc = "Done"
        THEN << [ role |-> "assistant",
                  content |-> fetchLog[Len(fetchLog)].reply[1].text,
                  tool_calls |-> << >>, tool_call_id |-> << >>,
                  timestamp |-> << >> ] >>
        ELSE << >>)

\* The session is written once and with the right lists when the request
\* has ended Done or Exhausted, and not at all while the loop runs
SavedOnceAtTheEnd ==
    /\ pc \in { "Loop", "ToolPhase" } => saveLog = << >>
    /\ (pc \in { "Done", "Exhausted" } /\ sessionId # << >>) =>
          /\ routingStrategy = "user_agent"
          /\ Len(saveLog) = 1
          /\ saveLog[1].sessionId = sessionId[1]
          /\ saveLog[1].existing = historyMessages
          /\ SubSeq(messages, 1, Len(historyMessages)) = historyMessages
          /\ messages[Len(historyMessages) + 1].role = "user"
          /\ messages[Len(historyMessages) + 1].content = request.message
          /\ saveLog[1].new = ExpectedNewMessages
          /\ \A j \in 2..Len(saveLog[1].new) :
                saveLog[1].new[j].role \in { "assistant", "tool" }
          /\ result # << >>
          /\ result[1].kind = "response"
    /\ (pc \in { "Done", "Exhausted" } /\ sessionId = << >>) =>
          saveLog = << >>

\* The save comes before the response is returned and no model call, tool
\* execution or second save comes after it
SaveIsTheLastStep ==
    /\ saveLog' # saveLog =>
          /\ saveLog = << >>
          /\ result = << >>
          /\ pc = "Loop"
          /\ pc' \in { "Done", "Exhausted" }
          /\ result' # << >>
    /\ saveLog # << >> =>
          /\ callLog' = callLog
          /\ execLog' = execLog
          /\ messages' = messages

\* C30: on the user_agent path with a session attached, a request that
\* reaches Done or Exhausted writes the session exactly once, after its last
\* model call and before the response is returned, and never during the
\* loop; the save is handed the loaded history and, as new messages, the
\* request's user message, every assistant and tool message the loop
\* appended, and on Done the final assistant message.  The write is one
\* call of saveSessionMessages; when the store fails it, nothing is stored
\* and the call is not repeated.
C30_SessionSavedOnceAfterTheLoop ==
    [] SavedOnceAtTheEnd /\ [][SaveIsTheLastStep]_vars

\* Done after a tool phase: user, assistant with calls, three tool results
\* and the final answer were handed to the one save
C30_Witness ==
    /\ pc = "Done"
    /\ sessionId # << >>
    /\ Len(saveLog) = 1
    /\ Len(saveLog[1].existing) = 18
    /\ Len(saveLog[1].new) = 6
    /\ saveLog[1].new[1].role = "user"
    /\ saveLog[1].new[5].role = "tool"
    /\ saveLog[1].new[6].content = << "final" >>
    /\ Len(callLog) = 2

\* Exhausted: the one save was handed no final answer
C30_WitnessExhausted ==
    /\ pc = "Exhausted"
    /\ sessionId # << >>
    /\ Len(saveLog) = 1
    /\ saveLog[1].new[Len(saveLog[1].new)].role = "tool"

-----------------------------------------------------------------------------
(* Properties of the tool phase and of the agent routes                    *)

\* The names agents_used lists: none when the field is omitted
ListedTools ==
    IF result[1].agent_info.agents_used = << >> THEN << >>
    ELSE result[1].agent_info.agents_used[1]

\* The tool calls of this request, in the order they were handled: the
\* tool-role messages behind the loaded history
HandledCalls ==
    SelectSeq(SubSeq(messages, newMessagesStartIndex + 1, Len(messages)),
              LAMBDA m : m.role = "tool")

\* The message of a handled call carries an error payload
IsErrorResult(m) == Len(m.content) > 0 /\ m.content[1] = "{\"error\":\""

\* C31: agents_used lists the name of each tool call whose execution
\* completed successfully, in execution order and once per call (a tool
\* called twice appears twice); a call that named an unknown tool or whose
\* execution threw is never listed.
C31_AgentsUsedListsSuccessfulCalls ==
    (result # << >> /\ result[1].kind = "response") =>
       LET succeeded == SelectSeq(execLog, LAMBDA e : e.outcome.kind = "result")
       IN  /\ Len(ListedTools) = Len(succeeded)
           /\ \A n \in 1..Len(succeeded) : ListedTools[n] = succeeded[n].name
           /\ \A n \in 1..Len(ListedTools) :
                 ListedTools[n] \in { config.tools[j] : j \in 1..Len(config.tools) }
           /\ Len(ListedTools)
                 = Len(SelectSeq(HandledCalls, LAMBDA m : ~ IsErrorResult(m)))

\* Two calls of the same tool succeeded and are listed twice; a throwing
\* call and an unknown tool between them are not listed
C31_Witness ==
    /\ pc = "Done"
    /\ result[1].agent_info.agents_used
          = << << "get_person_details", "broad_vector_search",
                  "get_person_details" >> >>
    /\ Len(execLog) = 4
    /\ execLog[4].outcome.kind = "throw"
    /\ Len(HandledCalls) = 6

\* The names of the tools of the resolved configuration
ConfiguredTools == { config.tools[j] : j \in 1..Len(config.tools) }

\* The names the process-wide registry holds
RegisteredTools ==
    { "get_person_details", "get_organization_profile", "find_collaborators",
      "get_project_details", "find_similar_projects", "broad_vector_search",
      "validate_line_producer_rate", "get_dp_financial_breakdown",
      "get_director_brand_fit", "find_dp_by_aesthetic",
      "check_crew_collaboration", "get_executive_producer_for_project",
      "analyze_hub_node_status", "search_folk_contacts",
      "get_folk_contact_details", "list_folk_groups" }

\* Place p holds an assistant message of this request that asks for tools
AsksForTools(p) ==
    /\ p > newMessagesStartIndex
    /\ messages[p].role = "assistant"
    /\ messages[p].tool_calls # << >>

\* C32: the orchestrator executes only tools of the resolved configuration's
\* tool set: a tool call whose name is not in that set, even when the name
\* is in the process-wide registry, is never executed and gets the
\* structured unknown-tool error payload as its result.
C32_OnlyConfiguredToolsExecuted ==
    /\ \A n \in 1..Len(execLog) : execLog[n].name \in ConfiguredTools
    /\ \A n \in 1..Len(toolsUsed) : toolsUsed[n] \in ConfiguredTools
    /\ \A p \in 1..Len(messages) :
          AsksForTools(p) =>
             \A j \in 1..Len(messages[p].tool_calls[1]) :
                LET name == messages[p].tool_calls[1][j].function.name
                IN  (p + j <= Len(messages) /\ name \notin ConfiguredTools) =>
                       /\ messages[p + j].role = "tool"
                       /\ messages[p + j].content =
                             << "{\"error\":\"", "Unknown tool: ", name, "\"}" >>
                       /\ \A n \in 1..Len(execLog) : execLog[n].name # name

\* A registered tool outside the configuration was asked for and refused
\* while a tool of the configuration in the same batch was executed
C32_Witness ==
    /\ pc = "Loop"
    /\ Len(callLog) = 1
    /\ "list_folk_groups" \in RegisteredTools \ ConfiguredTools
    /\ "analyze_hub_node_status" \in RegisteredTools \ ConfiguredTools
    /\ messages[Len(messages) - 3].content =
          << "{\"error\":\"", "Unknown tool: ", "list_folk_groups", "\"}" >>
    /\ messages[Len(messages) - 1].content =
          << "{\"error\":\"", "Unknown tool: ", "analyze_hub_node_status", "\"}" >>
    /\ Len(execLog) = 1
    /\ execLog[1].name = "get_person_details"
    /\ execLog[1].outcome.kind = "result"

\* The request that the step has just handled
JustHandled == httpLog'[Len(httpLog')]

\* Before the step, the agent the request names is stored and is the caller's
CallerOwnsAgent(req) ==
    /\ req.param \in DOMAIN userAgents
    /\ req.user # << >>
    /\ userAgents[req.param].user_id = req.user[1]

\* One request to the update or delete route, seen as a step
OwnerOnlyStep ==
    Len(httpLog') = Len(httpLog) + 1 =>
       LET req == JustHandled.request
       IN  /\ req.param \notin DOMAIN userAgents =>
                 /\ JustHandled.status = 404
                 /\ userAgents' = userAgents
           /\ (req.param \in DOMAIN userAgents /\ ~ CallerOwnsAgent(req)) =>
                 /\ JustHandled.status = 403
                 /\ userAgents' = userAgents
           /\ userAgents' # userAgents =>
                 /\ CallerOwnsAgent(req)
                 /\ DOMAIN userAgents' = DOMAIN userAgents
                 /\ \A id \in DOMAIN userAgents :
                       id # req.param => userAgents'[id] = userAgents[id]
                 /\ userAgents'[req.param].user_id = req.user[1]
           /\ resolveLog' # resolveLog => CallerOwnsAgent(req)
           /\ CallerOwnsAgent(req) => JustHandled.status = 200

\* C33: the update and delete agent routes change the agent store only for
\* the owner: updateUserAgent or deactivateUserAgent is called only when the
\* stored agent exists and its user_id equals the caller's user id; for a
\* missing agent the answer is 404, for another user's agent 403, and in
\* both cases the stored definition is unchanged.
C33_OnlyTheOwnerChangesAnAgent == [][OwnerOnlyStep]_vars

\* u2 was refused on u1's agent, a missing agent was not found, and then u1
\* deactivated its own agent; u2's agent is as it was
C33_Witness ==
    /\ Len(httpLog) = 3
    /\ httpLog[1].route = "update"
    /\ httpLog[1].request.user = << "u2" >>
    /\ httpLog[1].request.param = "a1"
    /\ httpLog[1].status = 403
    /\ httpLog[2].request.param = "a3"
    /\ httpLog[2].status = 404
    /\ httpLog[3].route = "delete"
    /\ httpLog[3].request.user = << "u1" >>
    /\ httpLog[3].status = 200
    /\ ~ userAgents["a1"].is_active
    /\ userAgents["a1"].system_prompt = << "mine" >>
    /\ userAgents["a2"].is_active

-----------------------------------------------------------------------------
(* Properties of concurrent requests on one session                        *)

\* Invocation p has returned after a save that the store accepted
SavedTurn(p) == tasks[p].pc = "returned" /\ tasks[p].saved

\* Invocations p and q overlapped: each read the session row before the
\* other one saved
Overlapped(p, q) ==
    /\ tasks[p].loadedAfter < tasks[q].savedAs
    /\ tasks[q].loadedAfter < tasks[p].savedAs

\* The stored window of session id holds the two messages of p's turn
TurnStored(id, p) ==
    \E j \in 1..Len(sessions) :
       /\ sessions[j].id = id
       /\ sessions[j].state # << >>
       /\ \E a, b \in 1..Len(sessions[j].state[1]) :
             /\ a < b
             /\ sessions[j].state[1][a].content = << "question", TurnWords[p] >>
             /\ sessions[j].state[1][b].content = << "answer", TurnWords[p] >>

\* C34: when two requests for the same (user, agent, conversation) triple run
\* concurrently and both reach Done, then after both saves the stored window
\* contains the new turns of both requests (up to the 20-message cap): no
\* completed turn is lost by the other request's save.
C34_NoTurnLostByConcurrentSave ==
    \A p, q \in 1..Len(tasks) :
       (/\ p # q
        /\ SavedTurn(p) /\ SavedTurn(q)
        /\ tasks[p].sessionId = tasks[q].sessionId
        /\ Overlapped(p, q)) =>
          /\ TurnStored(tasks[p].sessionId[1], p)
          /\ TurnStored(tasks[p].sessionId[1], q)

\* The rows of the agent_sessions table for the triple (u1, a1, c1)
SessionsOfTriple ==
    { j \in 1..Len(sessions) : /\ sessions[j].user_id = "u1"
                               /\ sessions[j].agent_id = "a1"
                               /\ sessions[j].conversation_id = "c1" }

\* The get-or-create call of invocation p is over
GotOrCreated(p) == tasks[p].pc \in { "loop", "save", "returned" }

\* C35: for every interleaving of concurrent get-or-create calls on the same
\* (user, agent, conversation) triple, at most one session exists for that
\* triple afterwards, and every one of the calls, and every later load on
\* the triple, returns that same session.
C35_OneSessionPerTriple ==
    /\ Cardinality(SessionsOfTriple) <= 1
    /\ \A p \in 1..Len(tasks) :
          GotOrCreated(p) => tasks[p].sessionId # << >>
    /\ \A p, q \in 1..Len(tasks) :
          (GotOrCreated(p) /\ GotOrCreated(q)) =>
             tasks[p].sessionId = tasks[q].sessionId

-----------------------------------------------------------------------------
(* Properties of the message lists and of the session on the failure and   *)
(* the classified paths                                                    *)

\* The message at place p answers a tool call that an assistant message
\* before it in the list carries
PairedWithCall(p) ==
    \E a \in 1..(p - 1) :
       /\ messages[a].role = "assistant"
       /\ messages[a].tool_calls # << >>
       /\ \E j \in 1..Len(messages[a].tool_calls[1]) :
             << messages[a].tool_calls[1][j].id >> = messages[p].tool_call_id

\* C36: in every message list sent to a provider, each tool-role message is
\* preceded by an assistant message that carries a tool call with the same
\* id; this holds also when the list starts with history loaded from a
\* session window that was truncated to its last 20 entries.
C36_ToolResultsPairedInEveryList ==
    \A n \in 1..Len(callLog) :
       \A p \in 1..callLog[n].nMessages :
          (p <= Len(messages) /\ messages[p].role = "tool") => PairedWithCall(p)


\* The window that the session store holds for the attached session
StoredHistory ==
    LET rows == { r \in 1..Len(sessions) : << sessions[r].id >> = sessionId }
    IN  IF rows = { } THEN << >>
        ELSE LET r == CHOOSE r \in rows : TRUE
             IN  IF sessions[r].state = << >> THEN << >>
                 ELSE sessions[r].state[1]

\* A step that makes runQuery throw writes nothing to the session store
ThrowSavesNothing ==
    (pc # "Thrown" /\ pc' = "Thrown") =>
       /\ saveLog' = saveLog
       /\ \A r \in 1..Len(sessions) :
             /\ r <= Len(sessions')
             /\ sessions'[r].state = sessions[r].state

\* C37: if a model call fails at any iteration of a request with a session
\* attached, runQuery throws without saving: the session's stored history
\* afterwards is exactly the history that was loaded, even when earlier
\* iterations of that request executed tools.
C37_FailedRequestLeavesHistoryAsLoaded ==
    /\ [] ((pc = "Thrown" /\ sessionId # << >>) =>
              /\ saveLog = << >>
              /\ StoredHistory = historyMessages)
    /\ [][ThrowSavesNothing]_vars

C37_Witness ==
    /\ pc = "Thrown"
    /\ sessionId # << >>
    /\ historyMessages # << >>
    /\ execLog # << >>
    /\ Len(callLog) >= 2
    /\ Len(messages) > Len(historyMessages) + 1
    /\ StoredHistory = historyMessages


\* The request was resolved by classification, not by a stored agent
OnClassifiedPath ==
    routingStrategy \in { "direct", "auto_classified", "fallback_classified" }

IsSessionLoad(e) == e.op = "loadSessionMessages"

\* A step of a request on a classified path leaves the session store alone
ClassifiedStepKeepsStore ==
    (routingStrategy' \in { "direct", "auto_classified",
                            "fallback_classified" }) =>
       /\ sessions' = sessions
       /\ saveLog' = saveLog

\* C38: a request resolved by the direct, auto_classified or
\* fallback_classified path never reads or writes the session store and
\* sends no history to the model: its first model call receives exactly one
\* message, the new user message; only a request on the user_agent path
\* loads or saves a session.
C38_ClassifiedPathsHaveNoSession ==
    /\ [] (OnClassifiedPath =>
              /\ sessionId = << >>
              /\ historyMessages = << >>
              /\ saveLog = << >>
              /\ SelectSeq(resolveLog, IsSessionLoad) = << >>
              /\ Len(messages) >= 1
              /\ messages[1].role = "user"
              /\ messages[1].content = request.message
              /\ Len(callLog) >= 1 => callLog[1].nMessages = 1)
    /\ [] ((SelectSeq(resolveLog, IsSessionLoad) # << >> \/ saveLog # << >>)
              => routingStrategy = "user_agent")
    /\ [][ClassifiedStepKeepsStore]_vars

C38_Witness ==
    /\ routingStrategy = "fallback_classified"
    /\ pc = "Done"
    /\ execLog # << >>
    /\ Len(callLog) >= 2
    /\ callLog[1].nMessages = 1
    /\ sessions # << >>
    /\ saveLog = << >>

C38_WitnessSaved ==
    /\ routingStrategy = "user_agent"
    /\ saveLog # << >>
    /\ callLog[1].nMessages > 1


\* C39: the category reported in agent_info.type is always one of sales,
\* talent, bidding, custom, and equals the type of the configuration (system
\* prompt and tool set) that governed the request, on every routing path.
C39_ReportedTypeIsGoverningCategory ==
    (result # << >> /\ result[1].kind = "response") =>
       /\ result[1].agent_info.type \in { "sales", "talent", "bidding",
                                          "custom" }
       /\ result[1].agent_info.type = config.type


\* runQuery is between its first model call and its return or throw
InTheLoop == pc \in { "Loop", "ToolPhase" }

\* C40: provided every provider call, tool execution and store call
\* eventually returns or throws, every runQuery invocation eventually
\* returns a response or throws: the request always reaches Done, Exhausted
\* or a provider failure, and never stays in the loop forever.
C40_EveryRequestEnds ==
    InTheLoop ~> (pc \in { "Done", "Exhausted", "Thrown" })

C40_Witness ==
    /\ pc = "Exhausted"
    /\ Len(callLog) = 5
    /\ Len(execLog) >= 5
    /\ result # << >>
    /\ result[1].kind = "response"

=============================================================================
